---- MODULE Spec2Model ----
(***************************************************************************)
(* Model of yt-transcript-ts:                                              *)
(*   - JsVarParser                (src/src/js-var-parser.ts)               *)
(*   - TranscriptParser           (src/src/transcript-parser.ts)           *)
(*   - CouldNotRetrieveTranscript (src/src/errors.ts)                      *)
(*   - CaptionsExtractor and InnerTubeClient.fetchVideoInfo                *)
(*                                (src/src/captions-extractor.ts)          *)
(*   - YoutubePageFetcher         (src/src/youtube-page-fetcher.ts)        *)
(*   - YouTubeTranscriptApi.isValidVideoId and extractVideoId              *)
(*                                (src/src/api.ts)                         *)
(* Texts are sequences of one-character strings.  Positions are 1-based;   *)
(* the code's "-1 / not found" is 0 here.                                  *)
(***************************************************************************)
EXTENDS Integers, Sequences, FiniteSets, TLC

VARIABLES
    pc,          \* which call is in flight and where it stands
    varName,     \* JsVarParser.varName of the instance in use
    html,        \* argument html of JsVarParser.parse
    videoId,     \* argument videoId of JsVarParser.parse
    shape,       \* how html was put together: [pre, head, lit, term, post]
    scanned,     \* what parseCharByChar returned or threw in this call
    outcome,     \* what parse returned or threw
    prior,       \* the outcome of the call whose extracted substring is parsed again
    config,      \* TranscriptParser: [preserveFormatting, linkFormat] of the instance
    rawData,     \* argument rawData of TranscriptParser.parse
    elements,    \* the selection $('text') the loop runs over
    idx,         \* the index in elements of the next callback
    snippets,    \* the array snippets
    sources,     \* for each snippet, the index in elements of the element it came from
    tpError,     \* the error TranscriptParser.parse threw, NoError if none
    thrown,      \* the CouldNotRetrieveTranscript under construction or just built
    extraction,  \* CaptionsExtractor.extractCaptionsData: its argument and what it gave
    fetched,     \* InnerTubeClient.fetchVideoInfo: the reply it got and what it gave
    idCall,      \* YouTubeTranscriptApi.isValidVideoId / extractVideoId: argument and result
    pageFetch,   \* YoutubePageFetcher.fetchVideoPage: the requests sent, the replies, the result
    instances,   \* the parsers that callers share: [js, tp], the fields of each
    calls        \* for each caller, the frame of its call of parse on one of instances

jsVars == <<varName, html, videoId, shape, scanned, outcome, prior>>
tpVars == <<config, rawData, elements, idx, snippets, sources, tpError>>
apiVars == <<thrown, extraction, fetched, pageFetch, idCall>>
parVars == <<instances, calls>>

(***************************************************************************)
(* Characters and elementary string functions                              *)
(***************************************************************************)
Quote == "\""
Apos  == "'"
Bksl  == "\\"
Space == " "

Digits == {"0", "1", "2", "3", "4", "5", "6", "7", "8", "9"}

\* s.indexOf(pat, from) for a non-empty pat, 1-based, 0 when absent
RECURSIVE IndexOf(_, _, _)
IndexOf(s, pat, from) ==
    IF from + Len(pat) - 1 > Len(s) THEN 0
    ELSE IF SubSeq(s, from, from + Len(pat) - 1) = pat THEN from
    ELSE IndexOf(s, pat, from + 1)

Contains(s, pat) == IndexOf(s, pat, 1) # 0

\* the position of the first character at or after i that is not white space
RECURSIVE SkipWs(_, _)
SkipWs(s, i) ==
    IF i <= Len(s) /\ s[i] = Space THEN SkipWs(s, i + 1) ELSE i

StartsWithAt(s, pat, i) ==
    /\ i + Len(pat) - 1 <= Len(s)
    /\ SubSeq(s, i, i + Len(pat) - 1) = pat

(***************************************************************************)
(* JSON.parse: values are records [t, s, m]; an object carries the set m   *)
(* of <<key, value>> pairs (a later duplicate key replaces an earlier      *)
(* one), a string or a number carries its characters s.                    *)
(***************************************************************************)
NoValue   == [t |-> "none", s |-> <<>>, m |-> {}]
StrVal(s) == [t |-> "str", s |-> s, m |-> {}]
NumVal(s) == [t |-> "num", s |-> s, m |-> {}]
ObjVal(m) == [t |-> "obj", s |-> <<>>, m |-> m]

JFail == [ok |-> FALSE, val |-> NoValue, pos |-> 0]
JOk(v, p) == [ok |-> TRUE, val |-> v, pos |-> p]

\* the character an escape \c stands for inside a JSON string, "" when \c is no escape
JEscape(c) ==
    CASE c = Quote -> Quote
      [] c = Bksl  -> Bksl
      [] c = "/"   -> "/"
      [] c = "r"   -> "<CR>"
      [] c = "n"   -> "<LF>"
      [] c = "t"   -> "<TAB>"
      [] c = "b"   -> "<BS>"
      [] c = "f"   -> "<FF>"
      [] OTHER     -> ""

\* the characters of a JSON string whose opening quote is at i - 1
RECURSIVE JStringTail(_, _, _)
JStringTail(s, i, acc) ==
    IF i > Len(s) THEN JFail
    ELSE IF s[i] = Quote THEN JOk(StrVal(acc), i + 1)
    ELSE IF s[i] = Bksl THEN
        IF i + 1 > Len(s) \/ JEscape(s[i + 1]) = "" THEN JFail
        ELSE JStringTail(s, i + 2, Append(acc, JEscape(s[i + 1])))
    ELSE JStringTail(s, i + 1, Append(acc, s[i]))

JString(s, i) ==
    IF i <= Len(s) /\ s[i] = Quote THEN JStringTail(s, i + 1, <<>>) ELSE JFail

RECURSIVE DigitsEnd(_, _)
DigitsEnd(s, i) ==
    IF i <= Len(s) /\ s[i] \in Digits THEN DigitsEnd(s, i + 1) ELSE i

\* a numeral without the zeros that end its fraction: 1.50 and 1.5 are one number
RECURSIVE Canonical(_)
Canonical(d) ==
    IF ~(\E i \in DOMAIN d : d[i] = ".") THEN d
    ELSE IF d[Len(d)] = "0" \/ d[Len(d)] = "." THEN
        IF d[Len(d)] = "." THEN SubSeq(d, 1, Len(d) - 1)
        ELSE Canonical(SubSeq(d, 1, Len(d) - 1))
    ELSE d

\* a JSON number: -? (0 | [1-9][0-9]*) (. [0-9]+)?
JNumber(s, i) ==
    LET j == IF i <= Len(s) /\ s[i] = "-" THEN i + 1 ELSE i
        k == DigitsEnd(s, j)
        intOk == k > j /\ (s[j] = "0" => k = j + 1)
        f == IF k <= Len(s) /\ s[k] = "." THEN DigitsEnd(s, k + 1) ELSE k
        fracOk == f = k \/ f > k + 1
    IN  IF intOk /\ fracOk THEN JOk(NumVal(Canonical(SubSeq(s, i, f - 1))), f) ELSE JFail

PutKey(m, k, v) == {p \in m : p[1] # k} \cup {<<k, v>>}

RECURSIVE JValue(_, _)
RECURSIVE JMembers(_, _, _)

\* the members of an object from position i on, m being those read so far
JMembers(s, i, m) ==
    LET k == JString(s, SkipWs(s, i)) IN
    IF ~k.ok THEN JFail
    ELSE LET c == SkipWs(s, k.pos) IN
         IF c > Len(s) \/ s[c] # ":" THEN JFail
         ELSE LET v == JValue(s, c + 1) IN
              IF ~v.ok THEN JFail
              ELSE LET e == SkipWs(s, v.pos)
                       m2 == PutKey(m, k.val.s, v.val)
                   IN  IF e > Len(s) THEN JFail
                       ELSE IF s[e] = "}" THEN JOk(ObjVal(m2), e + 1)
                       ELSE IF s[e] = "," THEN JMembers(s, e + 1, m2)
                       ELSE JFail

JValue(s, i) ==
    LET j == SkipWs(s, i) IN
    IF j > Len(s) THEN JFail
    ELSE IF s[j] = "{" THEN
        LET e == SkipWs(s, j + 1) IN
        IF e <= Len(s) /\ s[e] = "}" THEN JOk(ObjVal({}), e + 1)
        ELSE JMembers(s, j + 1, {})
    ELSE IF s[j] = Quote THEN JString(s, j)
    ELSE IF s[j] = "-" \/ s[j] \in Digits THEN JNumber(s, j)
    ELSE JFail

\* JSON.parse(s): one value, white space around it, nothing else
JsonParse(s) ==
    LET v == JValue(s, 1) IN
    IF v.ok /\ SkipWs(s, v.pos) = Len(s) + 1 THEN v ELSE JFail

(***************************************************************************)
(* JsVarParser                                                             *)
(***************************************************************************)
CouldNotRetrieve == "CouldNotRetrieveTranscript"
DataUnparsable   == "YOUTUBE_DATA_UNPARSABLE"

NoOutcome == [ok |-> FALSE, value |-> NoValue, errType |-> "", reason |-> "",
              videoId |-> "", text |-> <<>>]

\* a value returned, parsed from the substring text
Returned(v, text) ==
    [ok |-> TRUE, value |-> v, errType |-> "", reason |-> "", videoId |-> "",
     text |-> text]

\* throw CouldNotRetrieveTranscript.youTubeDataUnparsable(videoId)
youTubeDataUnparsable(vid) ==
    [ok |-> FALSE, value |-> NoValue, errType |-> CouldNotRetrieve,
     reason |-> DataUnparsable, videoId |-> vid, text |-> <<>>]

\* the SyntaxError of new RegExp(...) on a pattern that does not compile
RegExpSyntaxError ==
    [ok |-> FALSE, value |-> NoValue, errType |-> "SyntaxError", reason |-> "",
     videoId |-> "", text |-> <<>>]

VarKeyword == <<"v", "a", "r">>
VarMarker(name) == VarKeyword \o <<Space>> \o name

\* html.split(marker).length > 1
SplitFinds(text, marker) == Contains(text, marker)

\* html.split(marker)[1]: the text between the first and the second occurrence
SplitPart1(text, marker) ==
    LET first == IndexOf(text, marker, 1)
        from  == first + Len(marker)
        next  == IndexOf(text, marker, from)
    IN  SubSeq(text, from, IF next = 0 THEN Len(text) ELSE next - 1)

\* the marker parts are split by: "var NAME", or the bare NAME, or none
MarkerOf(name, text) ==
    IF SplitFinds(text, VarMarker(name)) THEN VarMarker(name)
    ELSE IF SplitFinds(text, name) THEN name
    ELSE <<>>

\* the loop variables of the brace scan
ScanStart ==
    [braceCount |-> 0, inString |-> FALSE, escapeNext |-> FALSE,
     stringChar |-> "", endIndex |-> 0]

\* an iteration that takes every closing brace outside a string for the end
ScanCharEndingAtAnyBrace(st, char, i) ==
    IF st.escapeNext THEN [st EXCEPT !.escapeNext = FALSE]
    ELSE IF char = Bksl THEN [st EXCEPT !.escapeNext = TRUE]
    ELSE IF ~st.inString THEN
        IF char = Quote \/ char = Apos
            THEN [st EXCEPT !.inString = TRUE, !.stringChar = char]
        ELSE IF char = "{" THEN [st EXCEPT !.braceCount = @ + 1]
        ELSE IF char = "}" THEN [st EXCEPT !.braceCount = @ - 1, !.endIndex = i]
        ELSE st
    ELSE IF char = st.stringChar
        THEN [st EXCEPT !.inString = FALSE, !.stringChar = ""]
    ELSE st

\* one iteration of the for loop, at index i on character char
ScanChar(st, char, i) ==
    IF st.escapeNext THEN [st EXCEPT !.escapeNext = FALSE]
    ELSE IF char = Bksl THEN [st EXCEPT !.escapeNext = TRUE]
    ELSE IF ~st.inString THEN
        IF char = Quote \/ char = Apos
            THEN [st EXCEPT !.inString = TRUE, !.stringChar = char]
        ELSE IF char = "{" THEN [st EXCEPT !.braceCount = @ + 1]
        ELSE IF char = "}" THEN
            [st EXCEPT !.braceCount = @ - 1,
                       !.endIndex = IF st.braceCount - 1 = 0 THEN i ELSE 0]
        ELSE st
    ELSE IF char = st.stringChar
        THEN [st EXCEPT !.inString = FALSE, !.stringChar = ""]
    ELSE st

\* the for loop from index i on: it breaks once endIndex is set
RECURSIVE ScanLoop(_, _, _)
ScanLoop(afterVar, i, st) ==
    IF i > Len(afterVar) THEN st
    ELSE LET n == ScanChar(st, afterVar[i], i) IN
         IF n.endIndex # 0 THEN n ELSE ScanLoop(afterVar, i + 1, n)

\* the for loop again, iteration by iteration: the index, the loop variables
\* before the iteration and after it, up to the break or the end of afterVar
RECURSIVE ScanSteps(_, _, _)
ScanSteps(afterVar, i, st) ==
    IF i > Len(afterVar) THEN <<>>
    ELSE LET n == ScanChar(st, afterVar[i], i) IN
         <<[at |-> i, char |-> afterVar[i], before |-> st, after |-> n]>> \o
         (IF n.endIndex # 0 THEN <<>> ELSE ScanSteps(afterVar, i + 1, n))

parseCharByChar(name, text, vid) ==
    LET marker == MarkerOf(name, text) IN
    IF marker = <<>> THEN youTubeDataUnparsable(vid)
    ELSE LET afterVar == SplitPart1(text, marker)
             openBraceIndex == IndexOf(afterVar, <<"{">>, 1)
         IN  IF openBraceIndex = 0 THEN youTubeDataUnparsable(vid)
             ELSE LET endIndex == ScanLoop(afterVar, openBraceIndex, ScanStart).endIndex IN
                  IF endIndex = 0 THEN youTubeDataUnparsable(vid)
                  ELSE LET jsonStr == SubSeq(afterVar, openBraceIndex, endIndex)
                           v == JsonParse(jsonStr)
                       IN  IF v.ok THEN Returned(v.val, jsonStr)
                           ELSE youTubeDataUnparsable(vid)

\* new RegExp(...) throws on a name that leaves a group open.  (The names of
\* this model hold no other character that is special in a pattern.)
RegExpCompiles(name) == \A i \in DOMAIN name : name[i] # "("

\* Where the text that precedes the capture group of pattern n matches from
\* position i: the position of the group's "{", or 0.
\*   1: var\s+NAME\s*=\s*(   2: NAME\s*=\s*(   3: "NAME"\s*:\s*(
\* The parts of the pattern are matched one after the other, each from the
\* position the one before it ended at (0: it did not match).
PatternNameAt(n, text, i) ==
    CASE n = 1 -> IF StartsWithAt(text, VarKeyword, i) /\ SkipWs(text, i + 3) > i + 3
                  THEN SkipWs(text, i + 3) ELSE 0
      [] n = 2 -> i
      [] n = 3 -> IF StartsWithAt(text, <<Quote>>, i) THEN i + 1 ELSE 0

PatternNameEnd(name, text, nameAt) ==
    IF nameAt # 0 /\ StartsWithAt(text, name, nameAt) THEN nameAt + Len(name) ELSE 0

PatternSepAt(n, text, nameEnd) ==
    IF nameEnd = 0 THEN 0
    ELSE IF n = 3 THEN
        IF StartsWithAt(text, <<Quote>>, nameEnd) THEN SkipWs(text, nameEnd + 1) ELSE 0
    ELSE SkipWs(text, nameEnd)

PatternBrace(n, text, sepAt) ==
    IF sepAt # 0 /\ sepAt <= Len(text) /\ text[sepAt] = (IF n = 3 THEN ":" ELSE "=")
    THEN SkipWs(text, sepAt + 1) ELSE 0

PatternGroupAt(text, brace) ==
    IF brace # 0 /\ brace <= Len(text) /\ text[brace] = "{" THEN brace ELSE 0

PatternHead(n, name, text, i) ==
    PatternGroupAt(text,
        PatternBrace(n, text,
            PatternSepAt(n, text,
                PatternNameEnd(name, text, PatternNameAt(n, text, i)))))

\* Where the group {[^}]*(?:{[^}]*}[^}]*)*} (followed by ";" in patterns 1
\* and 2) ends.  The engine tries the closing braces after the opening one in
\* text order, and goes on from one to the next only if a "{" lies between
\* it and the brace before it.  from is the position after the brace tried last.
RECURSIVE GroupEnd(_, _, _)
GroupEnd(n, text, from) ==
    LET q == IndexOf(text, <<"}">>, from) IN
    IF q = 0 THEN 0
    ELSE IF n = 3 \/ (q + 1 <= Len(text) /\ text[q + 1] = ";") THEN q
    ELSE IF Contains(SubSeq(text, from, q - 1), <<"{">>) THEN GroupEnd(n, text, q + 1)
    ELSE 0

\* the group that opens at b and ends at e (0: there is none)
GroupTo(text, b, e) == IF e = 0 THEN <<>> ELSE SubSeq(text, b, e)
GroupFrom(n, text, b) ==
    IF b = 0 THEN <<>> ELSE GroupTo(text, b, GroupEnd(n, text, b + 1))

\* html.match(pattern n)[1]: the group of the leftmost match, <<>> without a match
RECURSIVE MatchFrom(_, _, _, _)
MatchFrom(n, name, text, i) ==
    IF i > Len(text) THEN <<>>
    ELSE LET group == GroupFrom(n, text, PatternHead(n, name, text, i))
         IN  IF group # <<>> THEN group ELSE MatchFrom(n, name, text, i + 1)

Match(n, name, text) == MatchFrom(n, name, text, 1)

\* the end of '([^'\\]*(\\.[^'\\]*)*)' whose opening quote is at i - 1, or 0
RECURSIVE AposEnd(_, _)
AposEnd(s, i) ==
    IF i > Len(s) THEN 0
    ELSE IF s[i] = Apos THEN i
    ELSE IF s[i] = Bksl THEN (IF i + 1 > Len(s) THEN 0 ELSE AposEnd(s, i + 2))
    ELSE AposEnd(s, i + 1)

\* jsonStr.replace(/'([^'\\]*(\\.[^'\\]*)*)'/g, '"$1"') from position i on
RECURSIVE ReplaceQuotes(_, _)
ReplaceQuotes(s, i) ==
    IF i > Len(s) THEN <<>>
    ELSE LET e == IF s[i] = Apos THEN AposEnd(s, i + 1) ELSE 0 IN
         IF e # 0
         THEN <<Quote>> \o SubSeq(s, i + 1, e - 1) \o <<Quote>> \o ReplaceQuotes(s, e + 1)
         ELSE <<s[i]>> \o ReplaceQuotes(s, i + 1)

\* a loop that gives up at the first pattern that matches
RECURSIVE TryFirstMatch(_, _, _, _)
TryFirstMatch(n, name, text, vid) ==
    IF n > 3 THEN youTubeDataUnparsable(vid)
    ELSE LET m == Match(n, name, text)
             v == JsonParse(ReplaceQuotes(m, 1))
         IN  IF m = <<>> THEN TryFirstMatch(n + 1, name, text, vid)
             ELSE IF v.ok THEN Returned(v.val, m)
             ELSE youTubeDataUnparsable(vid)

\* the body of the loop on the match m of one pattern: the value returned,
\* or NoOutcome when the loop goes on
TryParsed(m, v) == IF m # <<>> /\ v.ok THEN Returned(v.val, m) ELSE NoOutcome
TryMatch(m) == TryParsed(m, JsonParse(ReplaceQuotes(m, 1)))

\* a loop that takes the patterns last to first
RECURSIVE TryPatternsBackwards(_, _, _, _)
TryPatternsBackwards(n, name, text, vid) ==
    IF n > 3 THEN youTubeDataUnparsable(vid)
    ELSE LET m == Match(4 - n, name, text)
             v == JsonParse(ReplaceQuotes(m, 1))
         IN  IF m # <<>> /\ v.ok THEN Returned(v.val, m)
             ELSE TryPatternsBackwards(n + 1, name, text, vid)

\* the loop over the patterns, from pattern n on
RECURSIVE TryPatterns(_, _, _, _)
TryPatterns(n, name, text, vid) ==
    IF n > 3 THEN youTubeDataUnparsable(vid)
    ELSE LET tried == TryMatch(Match(n, name, text))
         IN  IF tried.ok THEN tried ELSE TryPatterns(n + 1, name, text, vid)

parseWithRegex(name, text, vid) ==
    IF ~RegExpCompiles(name) THEN RegExpSyntaxError
    ELSE TryPatterns(1, name, text, vid)

(***************************************************************************)
(* Markup.  A markup text is a sequence of units: a character of text (or  *)
(* one character reference such as &amp;), a start tag with its attributes *)
(* (sc: written <tag .../>), or an end tag.  A parsed tree is a sequence   *)
(* of nodes: a character of text, or an element with attributes and        *)
(* children.  The parsers and serializers below are those of cheerio 1.x   *)
(* (htmlparser2 and dom-serializer with xmlMode, parse5 without), on the   *)
(* markup of this model: inline elements, no comments, attribute values    *)
(* without special characters, and no element left open inside another     *)
(* inline element.                                                         *)
(***************************************************************************)
Ch(c)            == [k |-> "ch", v |-> c, attrs |-> <<>>, sc |-> FALSE]
Open(tag, attrs) == [k |-> "open", v |-> tag, attrs |-> attrs, sc |-> FALSE]
Empty(tag, attrs) == [k |-> "open", v |-> tag, attrs |-> attrs, sc |-> TRUE]
Close(tag)       == [k |-> "close", v |-> tag, attrs |-> <<>>, sc |-> FALSE]

Tx(c) == [k |-> "tx", v |-> c, attrs |-> <<>>, kids |-> <<>>]
El(tag, attrs, kids) == [k |-> "el", v |-> tag, attrs |-> attrs, kids |-> kids]

\* $(el).attr(name): has is FALSE for undefined
RECURSIVE AttrFrom(_, _, _)
AttrFrom(attrs, name, i) ==
    IF i > Len(attrs) THEN [has |-> FALSE, val |-> <<>>]
    ELSE IF attrs[i][1] = name THEN [has |-> TRUE, val |-> attrs[i][2]]
    ELSE AttrFrom(attrs, name, i + 1)

Attr(attrs, name) == AttrFrom(attrs, name, 1)

\* the character a reference stands for; a unit that is no reference stands for itself
DecodeRef(v) ==
    CASE v = "&amp;"  -> "&"
      [] v = "&lt;"   -> "<"
      [] v = "&gt;"   -> ">"
      [] v = "&quot;" -> Quote
      [] v = "&#39;"  -> Apos
      [] v = "&apos;" -> Apos
      [] OTHER        -> v

\* dom-serializer, xmlMode: encodeXML of a character of text
EncodeXml(c) ==
    CASE c = "&"   -> "&amp;"
      [] c = "<"   -> "&lt;"
      [] c = ">"   -> "&gt;"
      [] c = Quote -> "&quot;"
      [] c = Apos  -> "&apos;"
      [] OTHER     -> c

\* parse5 serializer: escaping of a character of text
EscapeHtml(c) ==
    CASE c = "&" -> "&amp;"
      [] c = "<" -> "&lt;"
      [] c = ">" -> "&gt;"
      [] OTHER   -> c

VoidTags == {"br"}

\* the open elements while parsing: stack[1] is the root
Frame(tag, attrs) == [v |-> tag, attrs |-> attrs, kids |-> <<>>]
AddKid(stack, node) ==
    [stack EXCEPT ![Len(stack)].kids = Append(@, node)]

\* the innermost open element is closed and becomes a child of the one around it
PopFrame(stack) ==
    LET top == stack[Len(stack)] IN
    AddKid(SubSeq(stack, 1, Len(stack) - 1), El(top.v, top.attrs, top.kids))

RECURSIVE PopDownTo(_, _)
PopDownTo(stack, n) == IF Len(stack) <= n THEN stack ELSE PopDownTo(PopFrame(stack), n)

\* the innermost open element named tag: its depth in the stack, 0 if none is open
RECURSIVE OpenDepth(_, _, _)
OpenDepth(stack, tag, d) ==
    IF d <= 1 THEN 0
    ELSE IF stack[d].v = tag THEN d
    ELSE OpenDepth(stack, tag, d - 1)

\* One unit read by the tree builder.  xml: htmlparser2 in xmlMode, where
\* <tag/> is an element without children; otherwise parse5, where the "/" of
\* a start tag is ignored unless the element is void, and a start tag <a>
\* closes an <a> that is still open.  An end tag closes the innermost open
\* element of its name and those inside it; without one it is ignored.
ReadUnit(stack, u, xml) ==
    IF u.k = "ch" THEN AddKid(stack, Tx(DecodeRef(u.v)))
    ELSE IF u.k = "open" THEN
        IF (xml /\ u.sc) \/ (~xml /\ u.v \in VoidTags)
        THEN AddKid(stack, El(u.v, u.attrs, <<>>))
        ELSE LET a == IF ~xml /\ u.v = "a" THEN OpenDepth(stack, "a", Len(stack)) ELSE 0
                 s == IF a # 0 THEN PopDownTo(stack, a - 1) ELSE stack
             IN  Append(s, Frame(u.v, u.attrs))
    ELSE LET d == OpenDepth(stack, u.v, Len(stack)) IN
         IF d = 0 THEN stack ELSE PopDownTo(stack, d - 1)

Letters ==
    {"a", "b", "c", "d", "e", "f", "g", "h", "i", "j", "k", "l", "m",
     "n", "o", "p", "q", "r", "s", "t", "u", "v", "w", "x", "y", "z"}

IsLetter(units, i) == i <= Len(units) /\ units[i].k = "ch" /\ units[i].v \in Letters

\* the tag name that the letters from position i on spell
RECURSIVE NameFrom(_, _)
NameFrom(units, i) ==
    IF IsLetter(units, i) THEN units[i].v \o NameFrom(units, i + 1) ELSE ""

\* the position of the first ">" at or after i, 0 if there is none
RECURSIVE NextGt(_, _)
NextGt(units, i) ==
    IF i > Len(units) THEN 0
    ELSE IF units[i] = Ch(">") THEN i
    ELSE NextGt(units, i + 1)

\* The HTML tokenizer on characters that were decoded before the parse: a
\* "<" with a letter after it opens a start tag, "</" with a letter an end
\* tag, and the tag ends at the next ">" (what stands between the name and
\* the ">" is not kept in this model); a tag the text ends in is dropped.
\* A "<" before any other character is a character of text.
RECURSIVE Tokens(_, _)
Tokens(units, i) ==
    IF i > Len(units) THEN <<>>
    ELSE IF units[i] = Ch("<") /\ IsLetter(units, i + 1) THEN
        (IF NextGt(units, i + 1) = 0 THEN <<>>
         ELSE <<Open(NameFrom(units, i + 1), <<>>)>>
                  \o Tokens(units, NextGt(units, i + 1) + 1))
    ELSE IF units[i] = Ch("<") /\ i < Len(units) /\ units[i + 1] = Ch("/")
                /\ IsLetter(units, i + 2) THEN
        (IF NextGt(units, i + 2) = 0 THEN <<>>
         ELSE <<Close(NameFrom(units, i + 2))>>
                  \o Tokens(units, NextGt(units, i + 2) + 1))
    ELSE <<units[i]>> \o Tokens(units, i + 1)

RECURSIVE ReadUnits(_, _, _, _)
ReadUnits(units, i, stack, xml) ==
    IF i > Len(units) THEN PopDownTo(stack, 1)[1].kids
    ELSE ReadUnits(units, i + 1, ReadUnit(stack, units[i], xml), xml)

\* load(markup, {xmlMode: true}): the children of the root
LoadXml(units) == ReadUnits(units, 1, <<Frame("#root", <<>>)>>, TRUE)
\* load(markup, {xmlMode: false}): the children of <body>
LoadHtml(units) == ReadUnits(Tokens(units, 1), 1, <<Frame("#root", <<>>)>>, FALSE)

\* the markup of nodes; xml: an element without children is written <tag/>,
\* otherwise a void element is written <tag> and any other <tag></tag>
RECURSIVE Serialize(_, _)
Serialize(nodes, xml) ==
    IF nodes = <<>> THEN <<>>
    ELSE LET n == nodes[1]
             rest == Serialize(Tail(nodes), xml)
         IN  IF n.k = "tx"
             THEN <<Ch(IF xml THEN EncodeXml(n.v) ELSE EscapeHtml(n.v))>> \o rest
             ELSE IF xml /\ n.kids = <<>> THEN <<Empty(n.v, n.attrs)>> \o rest
             ELSE IF ~xml /\ n.v \in VoidTags THEN <<Open(n.v, n.attrs)>> \o rest
             ELSE <<Open(n.v, n.attrs)>> \o Serialize(n.kids, xml)
                      \o <<Close(n.v)>> \o rest

\* .text(): the characters of the text nodes, in document order
RECURSIVE TextContent(_)
TextContent(nodes) ==
    IF nodes = <<>> THEN <<>>
    ELSE (IF nodes[1].k = "tx" THEN <<nodes[1].v>> ELSE TextContent(nodes[1].kids))
            \o TextContent(Tail(nodes))

\* $(tag): the elements named tag, in document order
RECURSIVE Select(_, _)
Select(nodes, tag) ==
    IF nodes = <<>> THEN <<>>
    ELSE (IF nodes[1].k = "el"
          THEN (IF nodes[1].v = tag THEN <<nodes[1]>> ELSE <<>>)
                   \o Select(nodes[1].kids, tag)
          ELSE <<>>)
            \o Select(Tail(nodes), tag)

(***************************************************************************)
(* TranscriptParser                                                        *)
(***************************************************************************)
DefaultLinkFormat == <<"{text}", Space, "(", "{url}", ")">>

\* String.prototype.replace(pattern, replacement) with a string pattern:
\* GetSubstitution expands $$, $& and $ followed by a backtick or an apostrophe
Backtick == "<BACKTICK>"
RECURSIVE Substitution(_, _, _, _, _)
Substitution(repl, i, matched, before, after) ==
    IF i > Len(repl) THEN <<>>
    ELSE IF repl[i] = "$" /\ i < Len(repl) /\ repl[i + 1] \in {"$", "&", Backtick, Apos} THEN
        (CASE repl[i + 1] = "$" -> <<"$">>
           [] repl[i + 1] = "&" -> matched
           [] repl[i + 1] = Backtick -> before
           [] OTHER             -> after)
            \o Substitution(repl, i + 2, matched, before, after)
    ELSE <<repl[i]>> \o Substitution(repl, i + 1, matched, before, after)

\* str.replace(unit, repl): the first occurrence of the placeholder is replaced
Replace(str, unit, repl) ==
    LET at == IndexOf(str, <<unit>>, 1) IN
    IF at = 0 THEN str
    ELSE LET before == SubSeq(str, 1, at - 1)
             after  == SubSeq(str, at + 1, Len(str))
         IN  before \o Substitution(repl, 1, <<unit>>, before, after) \o after

\* this.linkFormat.replace('{text}', linkText).replace('{url}', href)
FormatLink(linkFormat, linkText, href) ==
    Replace(Replace(linkFormat, "{text}", linkText), "{url}", href)

\* the plain characters as units of markup
RECURSIVE AsUnits(_)
AsUnits(chars) == IF chars = <<>> THEN <<>> ELSE <<Ch(chars[1])>> \o AsUnits(Tail(chars))

\* $element.replaceWith(string): the string is parsed as HTML
Replacement(chars) == LoadHtml(AsUnits(chars))

\* the loop $('a').each(...): every anchor gives way to the text that stands for it
RECURSIVE ReplaceLinks(_, _)
ReplaceLinks(nodes, linkFormat) ==
    IF nodes = <<>> THEN <<>>
    ELSE LET n == nodes[1]
             href == Attr(n.attrs, "href")
             linkText == TextContent(n.kids)
             here == IF n.k = "tx" THEN <<n>>
                     ELSE IF n.v = "a" THEN
                         Replacement(IF href.has /\ href.val # <<>> /\ linkText # <<>>
                                     THEN FormatLink(linkFormat, linkText, href.val)
                                     ELSE linkText)
                     ELSE <<El(n.v, n.attrs, ReplaceLinks(n.kids, linkFormat))>>
         IN  here \o ReplaceLinks(Tail(nodes), linkFormat)

\* a conversion that drops every element together with what it holds
htmlToPlainTextOfTopLevel(markup, linkFormat) ==
    AsUnits(TextContent(SelectSeq(ReplaceLinks(LoadHtml(markup), linkFormat),
                                  LAMBDA n : n.k = "tx")))

htmlToPlainText(markup, linkFormat) ==
    AsUnits(TextContent(ReplaceLinks(LoadHtml(markup), linkFormat)))

FORMATTING_TAGS ==
    {"strong", "em", "b", "i", "mark", "small", "del", "ins", "sub", "sup", "span", "a"}

\* the elements the selection $('*').not('div, ' + FORMATTING_TAGS.join(', ')) leaves out
NotReplaced == {"div"} \cup FORMATTING_TAGS

\* every element of the selection gives way to its content
RECURSIVE Unwrapped(_)
Unwrapped(nodes) ==
    IF nodes = <<>> THEN <<>>
    ELSE (IF nodes[1].k = "tx" THEN <<nodes[1]>>
          ELSE IF nodes[1].v \in NotReplaced
              THEN <<El(nodes[1].v, nodes[1].attrs, Unwrapped(nodes[1].kids))>>
          ELSE Unwrapped(nodes[1].kids))
            \o Unwrapped(Tail(nodes))

\* The second loop replaces <html> first (it is the first element that is
\* neither a div nor a formatting tag) by its own markup parsed anew; the
\* elements visited after it are those of the tree that was replaced, so
\* the document that $('div').html() reads keeps every element.
processWithFormatting(text, linkFormat) ==
    LET div == LoadHtml(<<Open("div", <<>>)>> \o text \o <<Close("div")>>)
        Anew(linked) == IF "html" \notin NotReplaced
                        THEN LoadHtml(Serialize(linked, FALSE))
                        ELSE Unwrapped(linked)
        Html(divs) == IF divs = <<>> THEN <<>> ELSE Serialize(divs[1].kids, FALSE)
    IN  Html(Select(Anew(ReplaceLinks(div, linkFormat)), "div"))

\* the fallback table of decodeHtmlEntities
RECURSIVE ManualDecode(_)
ManualDecode(text) ==
    IF text = <<>> THEN <<>>
    ELSE <<IF text[1].k = "ch" THEN Ch(DecodeRef(text[1].v)) ELSE text[1]>>
            \o ManualDecode(Tail(text))

decodeHtmlEntities(text) ==
    LET Html(divs) == IF divs = <<>> THEN <<>> ELSE Serialize(divs[1].kids, FALSE)
        OrText(html0) == IF html0 = <<>> THEN text ELSE html0
        Decoded(decodedHtml) ==
            IF decodedHtml # text THEN decodedHtml ELSE ManualDecode(text)
    IN  Decoded(OrText(Html(
            Select(LoadHtml(<<Open("div", <<>>)>> \o text \o <<Close("div")>>), "div"))))

WhiteSpace == {Space, "\n", "\t"}
IsWs(u) == u.k = "ch" /\ u.v \in WhiteSpace

\* a replacement of the runs of spaces only, as by / +/g
RECURSIVE CollapseSpaces(_, _)
CollapseSpaces(text, i) ==
    IF i > Len(text) THEN <<>>
    ELSE IF text[i] = Ch(Space) /\ i > 1 /\ text[i - 1] = Ch(Space)
        THEN CollapseSpaces(text, i + 1)
    ELSE <<text[i]>> \o CollapseSpaces(text, i + 1)

\* text.replace(/\s+/g, ' '): from position i on
RECURSIVE Collapse(_, _)
Collapse(text, i) ==
    IF i > Len(text) THEN <<>>
    ELSE IF IsWs(text[i]) THEN
        IF i > 1 /\ IsWs(text[i - 1]) THEN Collapse(text, i + 1)
        ELSE <<Ch(Space)>> \o Collapse(text, i + 1)
    ELSE <<text[i]>> \o Collapse(text, i + 1)

\* trim(): the white space at both ends is taken off
RECURSIVE Trim(_)
Trim(text) ==
    IF text # <<>> /\ IsWs(text[1]) THEN Trim(Tail(text))
    ELSE IF text # <<>> /\ IsWs(text[Len(text)]) THEN Trim(SubSeq(text, 1, Len(text) - 1))
    ELSE text

CleanWhitespace(text) == Trim(Collapse(text, 1))

\* parseFloat: white space, a sign, digits with an optional fraction; what
\* follows is ignored.  The value is in thousandths; nan when no digit is read.
DigitValue(c) ==
    CASE c = "0" -> 0 [] c = "1" -> 1 [] c = "2" -> 2 [] c = "3" -> 3 [] c = "4" -> 4
      [] c = "5" -> 5 [] c = "6" -> 6 [] c = "7" -> 7 [] c = "8" -> 8 [] OTHER -> 9

RECURSIVE Whole(_, _, _)
Whole(s, i, j) == IF i >= j THEN 0 ELSE Whole(s, i, j - 1) * 10 + DigitValue(s[j - 1])

NaN == [nan |-> TRUE, milli |-> 0]

parseFloat(s) ==
    LET a == SkipWs(s, 1)
        neg == a <= Len(s) /\ s[a] = "-"
        b == IF a <= Len(s) /\ s[a] \in {"-", "+"} THEN a + 1 ELSE a
        c == DigitsEnd(s, b)
        d == IF c <= Len(s) /\ s[c] = "." THEN DigitsEnd(s, c + 1) ELSE c
        f == IF d > c THEN SubSeq(s, c + 1, d - 1) ELSE <<>>
        f3 == SubSeq(f \o <<"0", "0", "0">>, 1, 3)
        m == Whole(s, b, c) * 1000 + Whole(f3, 1, 4)
    IN  IF c = b /\ f = <<>> THEN NaN
        ELSE [nan |-> FALSE, milli |-> IF neg THEN 0 - m ELSE m]

\* rawData.includes('<transcript') and rawData.includes('</transcript>')
HasRootMarkers(raw) ==
    /\ \E i \in DOMAIN raw : raw[i].k = "open" /\ raw[i].v = "transcript"
    /\ \E i \in DOMAIN raw : raw[i].k = "close" /\ raw[i].v = "transcript"

\* the tag names of this model that begin with "text": a start tag of any
\* of them, self-closing or not, is a match of /<text[^>]*>/
NamesFromText == {"text", "textx"}

\* the matches of /<text[^>]*>/g and of /<\/text>/g
OpenTags(raw) ==
    Cardinality({i \in DOMAIN raw : raw[i].k = "open" /\ raw[i].v \in NamesFromText})
CloseTags(raw) ==
    Cardinality({i \in DOMAIN raw : raw[i].k = "close" /\ raw[i].v = "text"})

\* a push that leaves out a snippet the array already holds
PushIfNew(array, snippet) ==
    IF \E i \in DOMAIN array : array[i] = snippet THEN array ELSE Append(array, snippet)

\* snippets.push(snippet)
Push(array, snippet) == Append(array, snippet)

\* What the callback of $('text').each does with one element: the snippet it
\* pushes, or none.
NoSnippet == [some |-> FALSE, text |-> <<>>, start |-> NaN, duration |-> NaN]

\* a callback that pushes a snippet whatever its text
EachTextAnyText(element, preserveFormatting, linkFormat) ==
    LET startStr == Attr(element.attrs, "start")
        durStr == Attr(element.attrs, "dur")
        start == parseFloat(startStr.val)
        duration == parseFloat(durStr.val)
        decoded == decodeHtmlEntities(Serialize(element.kids, TRUE))
        rendered == IF preserveFormatting
                    THEN processWithFormatting(decoded, linkFormat)
                    ELSE htmlToPlainText(decoded, linkFormat)
    IN  IF ~startStr.has \/ startStr.val = <<>> \/ ~durStr.has \/ durStr.val = <<>>
        THEN NoSnippet
        ELSE IF start.nan \/ duration.nan THEN NoSnippet
        ELSE [some |-> TRUE, text |-> CleanWhitespace(rendered), start |-> start,
              duration |-> duration]

EachText(element, preserveFormatting, linkFormat) ==
    LET startStr == Attr(element.attrs, "start")
        durStr == Attr(element.attrs, "dur")
        inner == Serialize(element.kids, TRUE)
        Rendered(decoded) == IF preserveFormatting
                             THEN processWithFormatting(decoded, linkFormat)
                             ELSE htmlToPlainText(decoded, linkFormat)
        Snippet(start, duration, text) ==
            IF start.nan \/ duration.nan THEN NoSnippet
            ELSE IF text = <<>> THEN NoSnippet
            ELSE [some |-> TRUE, text |-> text, start |-> start, duration |-> duration]
    IN  IF ~startStr.has \/ startStr.val = <<>> \/ ~durStr.has \/ durStr.val = <<>>
        THEN NoSnippet
        ELSE Snippet(parseFloat(startStr.val), parseFloat(durStr.val),
                     CleanWhitespace(Rendered(decodeHtmlEntities(inner))))

\* the checks before the loop: the message of the error thrown, "" if none
StructureError(raw) ==
    IF ~HasRootMarkers(raw) THEN "Invalid transcript XML structure"
    ELSE IF OpenTags(raw) # CloseTags(raw) THEN "Malformed XML: mismatched text tags"
    ELSE IF Select(LoadXml(raw), "transcript") = <<>>
        THEN "No transcript element found in XML"
    ELSE ""

(***************************************************************************)
(* The texts JsVarParser.parse is called on                                *)
(***************************************************************************)
MaxNest == 2     \* a literal is wrapped in at most MaxNest further objects

NameX == <<"X">>
VarNames == {NameX, <<"(">>}
VideoIds == {"vid1", "vid2"}

\* {QaQ:inner}
Wrap(q, inner) == <<"{", q, "a", q, ":">> \o inner \o <<"}">>

RECURSIVE Nest(_, _, _)
Nest(q, inner, d) == IF d = 0 THEN inner ELSE Nest(q, Wrap(q, inner), d - 1)

\* the innermost literals, with quote character q
Cores(q) ==
    { <<"{", "}">>,
      Wrap(q, <<"1">>),
      Wrap(q, <<q, "}", q>>),                          \* a brace inside a string
      Wrap(q, <<q, Bksl, q, "{", q>>),                 \* an escaped quote, then a brace
      <<"{", "a", ":", "1", "}">>,                     \* a key without quotes
      <<"{", q, "a", q, ":", "1">>,                    \* never closed
      Wrap(q, <<q>> \o VarMarker(NameX) \o <<q>>),     \* the marker inside a string
      Wrap(q, <<"1", Bksl, "}">>),                     \* a backslash outside a string
      Wrap(Quote, <<Quote, Apos, ",", Apos, "a", Apos, ":", Apos, "a", Quote>>) }

Literals ==
    UNION { { Nest(q, c, d) : c \in Cores(q), d \in 0..MaxNest } : q \in {Quote, Apos} }

OtherLit == Wrap(Quote, <<"2">>)
Assign(name, lit) == VarMarker(name) \o <<Space, "=", Space>> \o lit \o <<";">>

HeadVar == VarMarker(NameX) \o <<Space, "=", Space>>
Heads ==
    { HeadVar,
      VarKeyword \o <<Space, Space>> \o NameX \o <<Space, "=", Space>>,
      NameX \o <<Space, "=", Space>>,
      <<Quote>> \o NameX \o <<Quote, ":", Space>>,
      VarMarker(NameX) \o <<";", Space>> \o HeadVar }

Pres ==
    { <<>>,
      Assign(<<"Y">>, OtherLit) \o <<Space>>,
      Assign(<<"X", "Y">>, OtherLit) \o <<Space>> }

Posts ==
    { <<>>,
      <<Space>> \o Assign(<<"Y">>, OtherLit),
      <<Space>> \o Assign(NameX, <<"{", "}">>),
      <<Space, Quote>> \o NameX \o <<Quote, ":", Space, "{", "}">> }

Terms == { <<";">>, <<>> }

Shapes ==
    { [pre |-> a, head |-> h, lit |-> l, term |-> e, post |-> z] :
        a \in Pres, h \in Heads, l \in Literals, e \in Terms, z \in Posts }

TextOf(sh) == sh.pre \o sh.head \o sh.lit \o sh.term \o sh.post

NoShape == [pre |-> <<>>, head |-> <<>>, lit |-> <<>>, term |-> <<>>, post |-> <<>>]

(***************************************************************************)
(* The calls                                                               *)
(***************************************************************************)
NoConfig == [preserveFormatting |-> FALSE, linkFormat |-> <<>>]
NoError == [errType |-> "", reason |-> "", prefix |-> "", cause |-> ""]

\* new Error(message): a name and a message, no reason; the message is
\* prefix, or prefix ": " cause
PlainError(prefix, cause) ==
    [errType |-> "Error", reason |-> "", prefix |-> prefix, cause |-> cause]

(***************************************************************************)
(* CouldNotRetrieveTranscript (src/src/errors.ts)                          *)
(* An optional value is <<>> when undefined and <<v>> when it is v; texts  *)
(* here are strings, joined with \o.                                       *)
(***************************************************************************)
Undefined == <<>>

Some(v) == <<v>>

\* JavaScript truthiness of an optional string: undefined and '' are falsy
TruthyText(opt) == opt # Undefined /\ opt[1] # ""

CouldNotRetrieveTranscriptReason ==
    [TranscriptsDisabled |-> "TRANSCRIPTS_DISABLED",
     NoTranscriptFound |-> "NO_TRANSCRIPT_FOUND",
     VideoUnavailable |-> "VIDEO_UNAVAILABLE",
     VideoUnplayable |-> "VIDEO_UNPLAYABLE",
     IpBlocked |-> "IP_BLOCKED",
     RequestBlocked |-> "REQUEST_BLOCKED",
     TranslationUnavailable |-> "TRANSLATION_UNAVAILABLE",
     TranslationLanguageUnavailable |-> "TRANSLATION_LANGUAGE_UNAVAILABLE",
     FailedToCreateConsentCookie |-> "FAILED_TO_CREATE_CONSENT_COOKIE",
     YouTubeRequestFailed |-> "YOUTUBE_REQUEST_FAILED",
     InvalidVideoId |-> "INVALID_VIDEO_ID",
     AgeRestricted |-> "AGE_RESTRICTED",
     YouTubeDataUnparsable |-> "YOUTUBE_DATA_UNPARSABLE"]

\* CouldNotRetrieveTranscriptReasonData with every field optional
ReasonData(codes, list, reason, subs, details) ==
    [requestedLanguageCodes |-> codes, transcriptData |-> list,
     reason |-> reason, subReasons |-> subs, details |-> details]

\* this.reasonData?.field
Field(data, name) == IF data = Undefined THEN Undefined ELSE data[1][name]

\* JSON.stringify of an array of plain strings
RECURSIVE StringifyItems(_, _)
StringifyItems(codes, i) ==
    IF i > Len(codes) THEN ""
    ELSE (IF i > 1 THEN "," ELSE "") \o "\"" \o codes[i] \o "\""
         \o StringifyItems(codes, i + 1)

Stringify(codes) == "[" \o StringifyItems(codes, 1) \o "]"

\* the loop over subReasons
RECURSIVE SubReasonLines(_, _)
SubReasonLines(subs, i) ==
    IF i > Len(subs) THEN ""
    ELSE " - " \o subs[i] \o "\n" \o SubReasonLines(subs, i + 1)

BlockedText ==
    "YouTube is blocking requests from your IP. This usually is due to one of the following reasons:\n"
    \o "- You have done too many requests and your IP has been blocked by YouTube\n"
    \o "- You are doing requests from an IP belonging to a cloud provider (like AWS, Google Cloud Platform, Azure, etc.). Unfortunately, most IPs from cloud providers are blocked by YouTube.\n\n"

\* a variant of Cause in which every reason takes the default branch
CauseByDefault(reason, data) == "Unknown error"

\* the switch of buildErrorMessage
Cause(reason, data) ==
    LET R == CouldNotRetrieveTranscriptReason
        codes == Field(data, "requestedLanguageCodes")
        list == Field(data, "transcriptData")
        why == Field(data, "reason")
        subs == Field(data, "subReasons")
        details == Field(data, "details")
    IN  CASE reason = R.TranscriptsDisabled -> "Subtitles are disabled for this video"
        [] reason = R.NoTranscriptFound ->
              "No transcripts were found for any of the requested language codes: "
              \o Stringify(IF codes = Undefined THEN <<>> ELSE codes[1])
              \o (IF list # Undefined THEN "\n\n" \o list[1] ELSE "")
        [] reason = R.VideoUnavailable -> "The video is no longer available"
        [] reason = R.VideoUnplayable ->
              "The video is unplayable for the following reason: "
              \o (IF TruthyText(why) THEN why[1] ELSE "No reason specified!")
              \o (IF subs # Undefined /\ Len(subs[1]) > 0
                  THEN "\n\nAdditional Details:\n" \o SubReasonLines(subs[1], 1)
                  ELSE "")
        [] reason = R.IpBlocked -> BlockedText \o "Ip blocked."
        [] reason = R.RequestBlocked -> BlockedText \o "Request blocked."
        [] reason = R.TranslationUnavailable ->
              "The requested transcript cannot be translated: "
              \o (IF TruthyText(details) THEN details[1] ELSE "Unknown reason")
        [] reason = R.TranslationLanguageUnavailable ->
              "The requested translation language is not available: "
              \o (IF TruthyText(details) THEN details[1] ELSE "Unknown reason")
        [] reason = R.FailedToCreateConsentCookie ->
              "Failed to create a consent cookie required by YouTube"
        [] reason = R.YouTubeRequestFailed ->
              "The request to YouTube failed: "
              \o (IF TruthyText(details) THEN details[1] ELSE "Unknown error")
        [] reason = R.InvalidVideoId -> "The provided video ID is invalid"
        [] reason = R.AgeRestricted ->
              "The video is age-restricted and requires authentication"
        [] reason = R.YouTubeDataUnparsable ->
              "The YouTube data structure could not be parsed"
        [] OTHER -> "Unknown error"

buildErrorMessage(vid, reason, data) ==
    LET baseError == "Could not retrieve a transcript for the video " \o vid \o "!"
    IN  IF ~TruthyText(reason) THEN baseError
        ELSE baseError \o " " \o Cause(reason[1], data)

\* new CouldNotRetrieveTranscript(videoId, reason, reasonData)
NewCouldNotRetrieveTranscript(vid, reason, data) ==
    [videoId |-> vid, reason |-> reason, reasonData |-> data,
     name |-> "CouldNotRetrieveTranscript",
     message |-> buildErrorMessage(vid, reason, data)]

\* the static factories; a and b are the arguments after videoId
Factory(name, vid, a, b) ==
    LET R == CouldNotRetrieveTranscriptReason
        New(reason, data) == NewCouldNotRetrieveTranscript(vid, Some(reason), data)
    IN  CASE name = "transcriptsDisabled" -> New(R.TranscriptsDisabled, Undefined)
        [] name = "noTranscriptFound" ->
              New(R.NoTranscriptFound,
                  Some(ReasonData(a, b, Undefined, Undefined, Undefined)))
        [] name = "videoUnavailable" -> New(R.VideoUnavailable, Undefined)
        [] name = "videoUnplayable" ->
              New(R.VideoUnplayable,
                  Some(ReasonData(Undefined, Undefined, a, b, Undefined)))
        [] name = "ipBlocked" -> New(R.IpBlocked, Undefined)
        [] name = "requestBlocked" -> New(R.RequestBlocked, Undefined)
        [] name = "translationUnavailable" ->
              New(R.TranslationUnavailable,
                  Some(ReasonData(Undefined, Undefined, Undefined, Undefined, a)))
        [] name = "translationLanguageUnavailable" ->
              New(R.TranslationLanguageUnavailable,
                  Some(ReasonData(Undefined, Undefined, Undefined, Undefined, a)))
        [] name = "failedToCreateConsentCookie" ->
              New(R.FailedToCreateConsentCookie, Undefined)
        [] name = "youTubeRequestFailed" ->
              New(R.YouTubeRequestFailed,
                  Some(ReasonData(Undefined, Undefined, Undefined, Undefined, a)))
        [] name = "invalidVideoId" -> New(R.InvalidVideoId, Undefined)
        [] name = "ageRestricted" -> New(R.AgeRestricted, Undefined)
        [] name = "youTubeDataUnparsable" -> New(R.YouTubeDataUnparsable, Undefined)

FactoryNames ==
    {"transcriptsDisabled", "noTranscriptFound", "videoUnavailable",
     "videoUnplayable", "ipBlocked", "requestBlocked", "translationUnavailable",
     "translationLanguageUnavailable", "failedToCreateConsentCookie",
     "youTubeRequestFailed", "invalidVideoId", "ageRestricted",
     "youTubeDataUnparsable"}

\* the arguments the factories are called with here
TextArgs == {Undefined, Some(""), Some("d")}

ListArgs == {Undefined, Some(<<>>), Some(<<"en">>), Some(<<"en", "de">>)}

FirstArgs(name) ==
    CASE name = "noTranscriptFound" -> ListArgs \ {Undefined}
      [] name = "videoUnplayable" -> TextArgs
      [] name \in {"translationUnavailable", "translationLanguageUnavailable",
                   "youTubeRequestFailed"} -> TextArgs \ {Undefined}
      [] OTHER -> {Undefined}

SecondArgs(name) ==
    CASE name = "noTranscriptFound" -> {Some("en (\"English\")")}
      [] name = "videoUnplayable" -> ListArgs
      [] OTHER -> {Undefined}

\* the reasons and reason data the constructor is called with directly: the
\* thirteen of the enum, none, the empty string and a value outside the enum
Reasons ==
    {Some(CouldNotRetrieveTranscriptReason[n]) :
         n \in DOMAIN CouldNotRetrieveTranscriptReason}
    \cup {Undefined, Some(""), Some("OTHER")}

ReasonDatas ==
    {Undefined,
     Some(ReasonData(Undefined, Undefined, Undefined, Undefined, Undefined)),
     Some(ReasonData(Undefined, Undefined, Undefined, Undefined, Some("d"))),
     Some(ReasonData(Undefined, Undefined, Undefined, Undefined, Some(""))),
     Some(ReasonData(Undefined, Undefined, Some("r"), Some(<<"s1", "s2">>), Undefined)),
     Some(ReasonData(Undefined, Undefined, Undefined, Some(<<>>), Undefined)),
     Some(ReasonData(Some(<<"en", "de">>), Some("en (\"English\")"), Undefined,
                     Undefined, Undefined)),
     Some(ReasonData(Some(<<"en">>), Undefined, Undefined, Undefined, Undefined))}

NoThrown == [by |-> "", args |-> <<>>, error |-> <<>>]

(***************************************************************************)
(* CaptionsExtractor (src/src/captions-extractor.ts)                       *)
(* A JavaScript value is [t, text, props]: t its type, text the characters *)
(* of a string, props the set of <<key, value>> of an object.              *)
(***************************************************************************)
JsUndefined == [t |-> "undefined", text |-> <<>>, props |-> {}]

JsNull == [t |-> "null", text |-> <<>>, props |-> {}]

JsString(s) == [t |-> "string", text |-> s, props |-> {}]

JsObject(pairs) == [t |-> "object", text |-> <<>>, props |-> pairs]

\* a variant of Truthy that takes an object without properties as falsy
TruthyUnlessEmpty(v) ==
    /\ v.t \notin {"undefined", "null"}
    /\ ~(v.t = "string" /\ v.text = <<>>)
    /\ ~(v.t = "object" /\ v.props = {})

\* !v is false
Truthy(v) == v.t \notin {"undefined", "null"} /\ ~(v.t = "string" /\ v.text = <<>>)

\* v.key on a value that is neither null nor undefined
Get(v, key) ==
    IF \E p \in v.props : p[1] = key
    THEN (CHOOSE p \in v.props : p[1] = key)[2]
    ELSE JsUndefined

\* v?.key
GetOptional(v, key) == IF v.t \in {"undefined", "null"} THEN JsUndefined ELSE Get(v, key)

Threw(error) == [ok |-> FALSE, value |-> JsUndefined, error |-> Some(error)]

Gave(value) == [ok |-> TRUE, value |-> value, error |-> Undefined]

extractCaptionsData(playerResponse, vid) ==
    LET captions == GetOptional(playerResponse, "captions")
        renderer == Get(captions, "playerCaptionsTracklistRenderer")
    IN  IF ~Truthy(captions)
        THEN Threw(Factory("transcriptsDisabled", vid, Undefined, Undefined))
        ELSE IF ~Truthy(renderer)
        THEN Threw(Factory("transcriptsDisabled", vid, Undefined, Undefined))
        ELSE Gave(renderer)

\* the values of playerCaptionsTracklistRenderer, of captions and of the
\* player response the extractor is called with
Renderers ==
    {JsUndefined, JsNull, JsObject({}),
     JsObject({<<"captionTracks", JsString(<<"t", "r", "a", "c", "k", "s">>)>>}),
     JsObject({<<"captionTracks", JsString(<<"t", "r", "a", "c", "k", "s">>)>>,
               <<"translationLanguages", JsString(<<"l", "a", "n", "g", "u", "a", "g", "e", "s">>)>>})}

CaptionsValues ==
    {JsUndefined, JsNull, JsObject({})}
    \cup {JsObject({<<"playerCaptionsTracklistRenderer", r>>}) : r \in Renderers}

PlayerResponses ==
    {JsUndefined, JsNull, JsObject({})}
    \cup {JsObject({<<"captions", c>>}) : c \in CaptionsValues}
    \cup {JsObject({<<"videoDetails", JsString(<<"d", "e", "t", "a", "i", "l", "s">>)>>, <<"captions", c>>}) :
             c \in CaptionsValues}

NoExtraction == [playerResponse |-> <<>>, videoId |-> "", result |-> <<>>]

(***************************************************************************)
(* InnerTubeClient.fetchVideoInfo (src/src/captions-extractor.ts)          *)
(***************************************************************************)
UpperCase ==
    <<"A", "B", "C", "D", "E", "F", "G", "H", "I", "J", "K", "L", "M",
      "N", "O", "P", "Q", "R", "S", "T", "U", "V", "W", "X", "Y", "Z">>

LowerCase ==
    <<"a", "b", "c", "d", "e", "f", "g", "h", "i", "j", "k", "l", "m",
      "n", "o", "p", "q", "r", "s", "t", "u", "v", "w", "x", "y", "z">>

\* s.toLowerCase()
toLowerCase(s) ==
    [i \in 1..Len(s) |->
        IF \E k \in 1..Len(UpperCase) : UpperCase[k] = s[i]
        THEN LowerCase[CHOOSE k \in 1..Len(UpperCase) : UpperCase[k] = s[i]]
        ELSE s[i]]

\* the characters of a JavaScript string as one text
RECURSIVE Str(_)
Str(chars) == IF chars = <<>> THEN "" ELSE chars[1] \o Str(Tail(chars))

\* value || fallback for a string or undefined value
OrElse(v, fallback) == IF Truthy(v) THEN v.text ELSE fallback

OK == <<"O", "K">>
UNPLAYABLE == <<"U", "N", "P", "L", "A", "Y", "A", "B", "L", "E">>
LOGIN_REQUIRED == <<"L", "O", "G", "I", "N", "_", "R", "E", "Q", "U", "I", "R", "E", "D">>
ERROR == <<"E", "R", "R", "O", "R">>
CONTENT_CHECK_REQUIRED == <<"C", "O", "N", "T", "E", "N", "T", "_", "C", "H", "E", "C", "K", "_", "R", "E", "Q", "U", "I", "R", "E", "D">>

\* new PoTokenRequired(videoId); the class is imported from ./errors
PoTokenRequired(vid) ==
    [videoId |-> vid, reason |-> Undefined, reasonData |-> Undefined,
     name |-> "PoTokenRequired", message |-> ""]

\* a variant of PoTokenMentioned that looks at the message as it is written
PoTokenSpelled(errorMessage) ==
    \/ Contains(errorMessage, <<"p", "o", " ", "t", "o", "k", "e", "n">>)
    \/ Contains(errorMessage, <<"p", "r", "o", "o", "f", " ", "o", "f", " ", "o", "r", "i", "g", "i", "n">>)

\* errorMessage.toLowerCase().includes('po token') || ...includes('proof of origin')
PoTokenMentioned(errorMessage) ==
    \/ Contains(toLowerCase(errorMessage), <<"p", "o", " ", "t", "o", "k", "e", "n">>)
    \/ Contains(toLowerCase(errorMessage), <<"p", "r", "o", "o", "f", " ", "o", "f", " ", "o", "r", "i", "g", "i", "n">>)

\* the array subReasons of the case UNPLAYABLE
SubReasonsOf(playabilityStatus) ==
    LET errorRenderer ==
            GetOptional(Get(playabilityStatus, "errorScreen"), "playerErrorMessageRenderer")
        first == GetOptional(Get(errorRenderer, "reason"), "simpleText")
        second == GetOptional(Get(errorRenderer, "subreason"), "simpleText")
    IN  IF ~Truthy(errorRenderer) THEN <<>>
        ELSE (IF Truthy(first) THEN <<Str(first.text)>> ELSE <<>>)
             \o (IF Truthy(second) THEN <<Str(second.text)>> ELSE <<>>)

\* what handlePlayabilityStatus throws, Undefined when it returns
handlePlayabilityStatus(vid, playabilityStatus) ==
    LET status == Get(playabilityStatus, "status")
        reason == Get(playabilityStatus, "reason")
        Is(text) == status.t = "string" /\ status.text = text
    IN  CASE Is(OK) -> Undefined
        [] Is(UNPLAYABLE) ->
              Some(Factory("videoUnplayable", vid,
                           Some(Str(OrElse(reason, <<"V", "i", "d", "e", "o", " ", "i", "s", " ", "u", "n", "p", "l", "a", "y", "a", "b", "l", "e">>))),
                           Some(SubReasonsOf(playabilityStatus))))
        [] Is(LOGIN_REQUIRED) -> Some(Factory("ageRestricted", vid, Undefined, Undefined))
        [] Is(ERROR) ->
              IF PoTokenMentioned(OrElse(reason, <<>>))
              THEN Some(PoTokenRequired(vid))
              ELSE Some(Factory("videoUnavailable", vid, Undefined, Undefined))
        [] Is(CONTENT_CHECK_REQUIRED) ->
              Some(Factory("ageRestricted", vid, Undefined, Undefined))
        [] OTHER -> Some(Factory("videoUnavailable", vid, Undefined, Undefined))

\* What httpClient.post gave: data when it resolved, otherwise the error it
\* rejected with; status 0 stands for an error without a response.
Resolved(data) == [resolved |-> TRUE, data |-> data, status |-> 0, message |-> ""]

Rejected(status, message) ==
    [resolved |-> FALSE, data |-> JsUndefined, status |-> status, message |-> message]

\* a variant of Caught that looks at the range 400..499 before 403 and 429
CaughtByRange(vid, status, message) ==
    IF status >= 400 /\ status < 500
    THEN Threw(Factory("requestBlocked", vid, Undefined, Undefined))
    ELSE Threw(Factory("youTubeRequestFailed", vid,
                       Some(IF message # "" THEN message
                            ELSE "Unknown error occurred while fetching video information"),
                       Undefined))

\* the catch block, for an error that is no CouldNotRetrieveTranscript and
\* no PoTokenRequired
Caught(vid, status, message) ==
    IF status = 403 THEN Threw(Factory("ipBlocked", vid, Undefined, Undefined))
    ELSE IF status = 429 THEN Threw(Factory("ipBlocked", vid, Undefined, Undefined))
    ELSE IF status >= 400 /\ status < 500
    THEN Threw(Factory("requestBlocked", vid, Undefined, Undefined))
    ELSE Threw(Factory("youTubeRequestFailed", vid,
                       Some(IF message # "" THEN message
                            ELSE "Unknown error occurred while fetching video information"),
                       Undefined))

fetchVideoInfo(vid, reply) ==
    IF ~reply.resolved THEN Caught(vid, reply.status, reply.message)
    ELSE LET data == reply.data
         IN  IF data.t \in {"undefined", "null"}
             THEN Caught(vid, 0, "Cannot read properties of " \o data.t
                                 \o " (reading 'playabilityStatus')")
             ELSE LET playabilityStatus == Get(data, "playabilityStatus")
                      error == IF Truthy(playabilityStatus)
                               THEN handlePlayabilityStatus(vid, playabilityStatus)
                               ELSE Undefined
                  IN  IF error # Undefined
                      THEN (IF error[1].name \in {"CouldNotRetrieveTranscript",
                                                  "PoTokenRequired"}
                            THEN Threw(error[1])
                            ELSE Caught(vid, 0, error[1].message))
                      ELSE Gave(data)

\* the replies the client gets here
Statuses ==
    {JsUndefined, JsString(OK), JsString(UNPLAYABLE), JsString(LOGIN_REQUIRED),
     JsString(ERROR), JsString(CONTENT_CHECK_REQUIRED),
     JsString(<<"L", "I", "V", "E", "_", "S", "T", "R", "E", "A", "M", "_", "O", "F", "F", "L", "I", "N", "E">>), JsString(<<"o", "k">>)}

StatusReasons ==
    {JsUndefined, JsString(<<>>), JsString(<<"P", "r", "i", "v", "a", "t", "e">>), JsString(<<"P", "O", " ", "T", "o", "k", "e", "n">>),
     JsString(<<"a", " ", "p", "o", " ", "t", "o", "k", "e", "n", " ", "b">>), JsString(<<"P", "r", "o", "o", "f", " ", "O", "f", " ", "O", "r", "i", "g", "i", "n">>), JsString(<<"P", "o", "T", "o", "k", "e", "n">>)}

SimpleText(chars) == JsObject({<<"simpleText", JsString(chars)>>})

ErrorScreens ==
    {JsUndefined, JsObject({}),
     JsObject({<<"playerErrorMessageRenderer", JsObject({})>>}),
     JsObject({<<"playerErrorMessageRenderer",
                 JsObject({<<"reason", SimpleText(<<"r", "1">>)>>})>>}),
     JsObject({<<"playerErrorMessageRenderer",
                 JsObject({<<"reason", SimpleText(<<"r", "1">>)>>,
                           <<"subreason", SimpleText(<<"r", "2">>)>>})>>})}

PlayabilityStatus(status, reason, errorScreen) ==
    JsObject({p \in {<<"status", status>>, <<"reason", reason>>,
                     <<"errorScreen", errorScreen>>} : p[2] # JsUndefined})

Replies ==
    {Resolved(JsUndefined), Resolved(JsNull), Resolved(JsObject({})),
     Resolved(JsObject({<<"playabilityStatus", JsNull>>}))}
    \cup {Resolved(JsObject({<<"playabilityStatus", PlayabilityStatus(st, r, es)>>,
                             <<"captions", JsObject({})>>})) :
             st \in Statuses, r \in StatusReasons, es \in ErrorScreens}
    \cup {Rejected(st, m) : st \in {0, 403, 404, 429, 500},
                            m \in {"", "Network error"}}

NoFetch == [videoId |-> "", reply |-> <<>>, result |-> <<>>]

(***************************************************************************)
(* YoutubePageFetcher (src/src/youtube-page-fetcher.ts)                    *)
(* A page is a sequence of pieces of markup: the start of a tag ("<form"), *)
(* an attribute, ">", a closing tag, or text.  No piece but ">" holds the  *)
(* character ">".                                                          *)
(***************************************************************************)
ConsentAction == "action=\"https://consent.youtube.com/s\""

ConsentUrl == "https://consent.youtube.com/s"

WATCH_URL(vid) == "https://www.youtube.com/watch?v=" \o vid

\* a variant of NeedsConsent that never finds the marker
NeedsConsentNever(page) == FALSE

\* html.includes('action="https://consent.youtube.com/s"')
NeedsConsent(page) == \E i \in 1..Len(page) : page[i] = ConsentAction

\* html.match(/<form[^>]*action="https:\/\/consent\.youtube\.com\/s"[^>]*>(.*?)<\/form>/s):
\* the positions <<form, action, end of tag, closing tag>> of the leftmost
\* match, <<>> when there is none
ConsentFormMatch(page) ==
    LET Hits ==
            {h \in (1..Len(page)) \X (1..Len(page)) \X (1..Len(page)) \X (1..Len(page)) :
                /\ h[1] < h[2] /\ h[2] < h[3] /\ h[3] < h[4]
                /\ page[h[1]] = "<form"
                /\ page[h[2]] = ConsentAction
                /\ page[h[3]] = ">"
                /\ page[h[4]] = "</form>"
                /\ \A k \in (h[1] + 1)..(h[3] - 1) : page[k] # ">"
                /\ \A k \in (h[3] + 1)..(h[4] - 1) : page[k] # "</form>"}
    IN  IF Hits = {} THEN <<>>
        ELSE CHOOSE h \in Hits : \A g \in Hits : h[1] <= g[1]

\* What the client answered a request with: a response with status and data,
\* or a rejection, by axios (status 0: without response) or by something else.
Response(status, data) ==
    [resolved |-> TRUE, status |-> status, data |-> data, axios |-> FALSE, message |-> ""]

AxiosRejection(status, message) ==
    [resolved |-> FALSE, status |-> status, data |-> Undefined, axios |-> TRUE,
     message |-> message]

OtherRejection(message) ==
    [resolved |-> FALSE, status |-> 0, data |-> Undefined, axios |-> FALSE,
     message |-> message]

\* the catch block of fetchVideoPage for an error that is no
\* CouldNotRetrieveTranscript
PageCaught(vid, reply) ==
    IF reply.axios
    THEN (IF reply.status = 403 \/ reply.status = 429
          THEN Threw(Factory("ipBlocked", vid, Undefined, Undefined))
          ELSE Threw(Factory("youTubeRequestFailed", vid,
                             Some("Network error: " \o reply.message), Undefined)))
    ELSE Threw(Factory("youTubeRequestFailed", vid,
                       Some("Unknown error: " \o reply.message), Undefined))

\* a variant of ConsentCaught that leaves the error to the catch block of
\* fetchVideoPage
ConsentCaughtOutside(vid, reply) == PageCaught(vid, reply)

\* the catch block of createConsentCookie for an error that is no
\* CouldNotRetrieveTranscript
ConsentCaught(vid, reply) ==
    Threw(Factory("failedToCreateConsentCookie", vid, Undefined, Undefined))

\* the error of reading html.includes when response.data is undefined
NoIncludes ==
    OtherRejection("TypeError: Cannot read properties of undefined (reading 'includes')")

StatusFailure(vid, prefix, status) ==
    Threw(Factory("youTubeRequestFailed", vid, Some(prefix \o ToString(status)), Undefined))

\* the pages and the replies the client gives here
PlainPage == <<"<html", ">", "x">>

ConsentPage == <<"<form", " ", ConsentAction, ">", "<input", ">", "</form>">>

Pages ==
    {PlainPage, ConsentPage,
     <<"<form", " ", "method=\"post\"", " ", ConsentAction, " ", "id=\"f\"", ">",
       "</form>", "x">>,
     <<"<div", " ", ConsentAction, ">", "</div>">>,
     <<"<form", " ", ConsentAction, ">", "x">>,
     <<"<form", ">", "<a", " ", ConsentAction, ">", "</form>">>,
     <<"x", ConsentAction, "x">>}

Rejections ==
    {AxiosRejection(st, "m") : st \in {0, 403, 429, 500}} \cup {OtherRejection("Error: m")}

GetReplies ==
    {Response(200, Some(page)) : page \in Pages}
    \cup {Response(200, Undefined), Response(204, Some(PlainPage))}
    \cup Rejections

PostReplies == {Response(200, Some(<<"OK">>)), Response(204, Undefined)} \cup Rejections

Request(method, url) == [method |-> method, url |-> url]

NoPageFetch == [videoId |-> "", sent |-> <<>>, replies |-> <<>>, result |-> <<>>]

\* new JsVarParser(name).parse(text, vid) is entered
JsCall ==
    /\ pc = "idle"
    /\ \E name \in VarNames, sh \in Shapes, vid \in VideoIds :
          /\ sh.pre = <<>> \/ sh.post = <<>>
          /\ name # NameX => sh.pre = <<>> /\ sh.post = <<>>
          /\ varName' = name
          /\ shape' = sh
          /\ html' = TextOf(sh)
          /\ videoId' = vid
    /\ pc' = "scan"
    /\ UNCHANGED <<scanned, outcome, prior>>
    /\ UNCHANGED <<tpVars, apiVars, parVars>>

\* parse, line 29: the first strategy; its value is returned, its error caught
JsScan ==
    /\ pc = "scan"
    /\ scanned' = parseCharByChar(varName, html, videoId)
    /\ IF scanned'.ok
       THEN outcome' = scanned' /\ pc' = "jsDone"
       ELSE outcome' = outcome /\ pc' = "regex"
    /\ UNCHANGED <<varName, html, videoId, shape, prior>>
    /\ UNCHANGED <<tpVars, apiVars, parVars>>

\* parse, line 32: the second strategy; whatever it returns or throws leaves parse
JsRegex ==
    /\ pc = "regex"
    /\ outcome' = parseWithRegex(varName, html, videoId)
    /\ pc' = "jsDone"
    /\ UNCHANGED <<varName, html, videoId, shape, scanned, prior>>
    /\ UNCHANGED <<tpVars, apiVars, parVars>>

\* the caller parses `var NAME = S;` where S is the substring the call extracted
JsAgain ==
    /\ pc = "jsDone"
    /\ outcome.ok
    /\ prior = NoOutcome
    /\ prior' = outcome
    /\ shape' = [NoShape EXCEPT !.head = VarMarker(varName) \o <<Space, "=", Space>>,
                                !.lit = outcome.text, !.term = <<";">>]
    /\ html' = TextOf(shape')
    /\ scanned' = NoOutcome
    /\ outcome' = NoOutcome
    /\ pc' = "scan"
    /\ UNCHANGED <<varName, videoId>>
    /\ UNCHANGED <<tpVars, apiVars, parVars>>

\* the caller is done with the result
JsReturn ==
    /\ pc = "jsDone"
    /\ pc' = "idle"
    /\ varName' = <<>>
    /\ html' = <<>>
    /\ videoId' = ""
    /\ shape' = NoShape
    /\ scanned' = NoOutcome
    /\ outcome' = NoOutcome
    /\ prior' = NoOutcome
    /\ UNCHANGED <<tpVars, apiVars, parVars>>

(***************************************************************************)
(* The documents TranscriptParser.parse is called on                       *)
(***************************************************************************)
MaxSegs == 2     \* a document has at most MaxSegs <text> elements

Good == <<"1", ".", "5">>
\* the values of start and dur: <<"-">> stands for an attribute that is not written
Unwritten == <<"-">>
AttrValues ==
    { Good, <<"0">>, <<"-", "1">>, <<"x">>, <<"2", "x">>, <<>>, Unwritten }

Attrs(start, dur) ==
    (IF start = Unwritten THEN <<>> ELSE << <<"start", start>> >>)
        \o (IF dur = Unwritten THEN <<>> ELSE << <<"dur", dur>> >>)

Href == << <<"href", <<"u">>>> >>
Link(attrs, chars) == <<Open("a", attrs)>> \o AsUnits(chars) \o <<Close("a")>>

Bodies ==
    { AsUnits(<<"t">>),
      <<>>,
      AsUnits(<<Space, "\n">>),
      AsUnits(<<Space, "t", Space, "\n", "s", Space>>),
      Link(Href, <<"t">>),
      Link(<<>>, <<"t">>),
      Link(Href, <<>>) \o AsUnits(<<"s">>),
      Link(Href, <<"$", "$">>),
      <<Open("b", <<>>), Ch("t"), Close("b")>>,
      <<Open("u", <<>>), Ch("t"), Close("u")>>,
      <<Ch("s"), Ch(Space), Ch("&lt;"), Ch("t"), Ch("&gt;")>>,
      <<Ch("s"), Ch(Space), Ch("&lt;"), Ch(Space), Ch("&amp;"), Ch(Space), Ch("t")>>,
      <<Ch("&lt;"), Ch("t"), Ch("&gt;"), Ch("&quot;"), Ch("s"), Ch("&#39;")>>,
      <<Ch("&apos;"), Ch("s"), Ch("&gt;")>>,
      <<Open("div", <<>>), Ch("t"), Close("div")>>,
      <<Open("span", << <<"class", <<"c">>>> >>), Ch("x"), Close("span")>>,
      <<Ch("s"), Ch(Space), Open("b", << <<"id", <<"i">>>> >>), Ch("x"), Close("b")>>,
      <<Open("i", << <<"id", <<"i">>>> >>), Open("b", <<>>), Ch("x"), Close("b"),
        Ch("y"), Close("i")>> }

Segment(start, dur, body) == <<Open("text", Attrs(start, dur))>> \o body \o <<Close("text")>>

Segments ==
    { Segment(s, Good, AsUnits(<<"t">>)) : s \in AttrValues }
        \cup { Segment(<<"0">>, d, AsUnits(<<"t">>)) : d \in AttrValues }
        \cup { Segment(Good, Good, b) : b \in Bodies }

RECURSIVE Flatten(_)
Flatten(ss) == IF ss = <<>> THEN <<>> ELSE ss[1] \o Flatten(Tail(ss))

Document(segs) == <<Open("transcript", <<>>)>> \o Flatten(segs) \o <<Close("transcript")>>

\* the segments that follow the first one of a document
Siblings ==
    { Segment(Good, Good, AsUnits(<<"t">>)),
      Segment(<<"0">>, Good, AsUnits(<<"s">>)),
      Segment(<<"x">>, Good, AsUnits(<<"t">>)),
      Segment(Good, Good, <<>>) }

\* documents that are not one <transcript> of closed <text> elements
GoodSegment == Segment(Good, Good, AsUnits(<<"t">>))
Malformed ==
    { AsUnits(<<"t">>),
      <<Open("transcript", <<>>), Open("text", Attrs(Good, Good)), Ch("t"),
        Close("transcript")>>,
      <<Open("transcript", <<>>)>> \o GoodSegment,
      GoodSegment \o <<Close("transcript")>>,
      <<Open("transcript", <<>>)>> \o GoodSegment
          \o <<Open("text", Attrs(Good, Good)), Ch("s"), Close("transcript")>>,
      <<Open("transcript", <<>>)>> \o GoodSegment \o <<Close("text"), Close("transcript")>>,
      <<Open("transcript", <<>>), Empty("text", Attrs(Good, Good))>> \o GoodSegment
          \o <<Close("transcript")>>,
      <<Open("transcript", <<>>), Empty("textx", <<>>)>> \o GoodSegment
          \o <<Close("text"), Close("transcript")>> }

Documents ==
    { Document(<<>>) }
        \cup { Document(<<first>> \o rest) :
                  first \in Segments,
                  rest \in UNION { [1..n -> Siblings] : n \in 0..(MaxSegs - 1) } }
        \cup Malformed


\* a link format without {url}, and one without {text}
TextOnly == <<"{text}">>
UrlOnly == <<"(", "{url}", ")">>
LinkFormats == { DefaultLinkFormat, <<"[", "{text}", "]", "(", "{url}", ")">>, TextOnly, UrlOnly }

\* new TranscriptParser(preserveFormatting, linkFormat)
NewParser(preserveFormatting, linkFormat) ==
    [preserveFormatting |-> preserveFormatting, linkFormat |-> linkFormat]

NoParser == [preserveFormatting |-> FALSE, linkFormat |-> <<>>]
LinkFormatError == "Link format must contain {text} and {url} placeholders"

\* TranscriptParser.withConfig: the parser, or NoParser when it throws
withConfig(preserveFormatting, linkFormat) ==
    IF ~Contains(linkFormat, <<"{text}">>) \/ ~Contains(linkFormat, <<"{url}">>)
    THEN NoParser
    ELSE NewParser(preserveFormatting, linkFormat)

\* the ways a caller makes a parser: the constructor with its defaults or
\* with both arguments, and withConfig
Makings ==
    { [by |-> "new", preserveFormatting |-> pf, linkFormat |-> DefaultLinkFormat] :
          pf \in BOOLEAN }
        \cup { [by |-> b, preserveFormatting |-> FALSE, linkFormat |-> lf] :
                  b \in {"new", "withConfig"}, lf \in LinkFormats }

Made(mk) ==
    IF mk.by = "withConfig" THEN withConfig(mk.preserveFormatting, mk.linkFormat)
    ELSE NewParser(mk.preserveFormatting, mk.linkFormat)

\* a parser is made and its parse(rawData) is entered
TpCall ==
    /\ pc = "idle"
    /\ \E mk \in Makings, d \in Documents :
          /\ Made(mk) # NoParser
          /\ config' = Made(mk)
          /\ rawData' = d
    /\ pc' = "tpLoad"
    /\ UNCHANGED <<elements, idx, snippets, sources, tpError>>
    /\ UNCHANGED <<jsVars, apiVars, parVars>>

\* withConfig throws: there is no parser to call
TpRefused ==
    /\ pc = "idle"
    /\ \E mk \in Makings :
          /\ Made(mk) = NoParser
          /\ tpError' = PlainError(LinkFormatError, "")
    /\ pc' = "tpDone"
    /\ UNCHANGED <<config, rawData, elements, idx, snippets, sources>>
    /\ UNCHANGED <<jsVars, apiVars, parVars>>

\* parse, lines 61 to 87: the checks, the load, the selection of <text>
TpLoad ==
    /\ pc = "tpLoad"
    /\ IF StructureError(rawData) # ""
       THEN /\ tpError' = PlainError("Failed to parse transcript XML",
                                     StructureError(rawData))
            /\ pc' = "tpDone"
            /\ UNCHANGED <<elements, idx>>
       ELSE /\ elements' = Select(LoadXml(rawData), "text")
            /\ idx' = 1
            /\ pc' = "tpEach"
            /\ UNCHANGED tpError
    /\ UNCHANGED <<config, rawData, snippets, sources>>
    /\ UNCHANGED <<jsVars, apiVars, parVars>>

\* parse, lines 87 to 129: the callback on the next element
TpEach ==
    /\ pc = "tpEach"
    /\ idx <= Len(elements)
    /\ LET Pushed(s) ==
              IF s.some
              THEN /\ snippets' = Push(snippets,
                                       [text |-> s.text, start |-> s.start,
                                        duration |-> s.duration])
                   /\ sources' = Append(sources, idx)
              ELSE UNCHANGED <<snippets, sources>>
       IN  Pushed(EachText(elements[idx], config.preserveFormatting, config.linkFormat))
    /\ idx' = idx + 1
    /\ UNCHANGED <<pc, config, rawData, elements, tpError>>
    /\ UNCHANGED <<jsVars, apiVars, parVars>>

\* parse, line 131: return snippets
TpFinish ==
    /\ pc = "tpEach"
    /\ idx > Len(elements)
    /\ pc' = "tpDone"
    /\ UNCHANGED tpVars
    /\ UNCHANGED <<jsVars, apiVars, parVars>>

\* the caller is done with the result
TpReturn ==
    /\ pc = "tpDone"
    /\ pc' = "idle"
    /\ config' = NoConfig
    /\ rawData' = <<>>
    /\ elements' = <<>>
    /\ idx' = 0
    /\ snippets' = <<>>
    /\ sources' = <<>>
    /\ tpError' = NoError
    /\ UNCHANGED <<jsVars, apiVars, parVars>>

\* new CouldNotRetrieveTranscript(vid, reason, data) runs
ErrNew ==
    /\ pc = "idle"
    /\ \E vid \in VideoIds, reason \in Reasons, data \in ReasonDatas :
           thrown' = [by |-> "new", args |-> <<vid, reason, data>>,
                      error |-> Some(NewCouldNotRetrieveTranscript(vid, reason, data))]
    /\ pc' = "errDone"
    /\ UNCHANGED <<parVars, jsVars, tpVars, extraction, fetched, pageFetch, idCall>>

\* one of the static factories runs
ErrFactory ==
    /\ pc = "idle"
    /\ \E name \in FactoryNames, vid \in VideoIds :
         \E a \in FirstArgs(name), b \in SecondArgs(name) :
           thrown' = [by |-> name, args |-> <<vid, a, b>>,
                      error |-> Some(Factory(name, vid, a, b))]
    /\ pc' = "errDone"
    /\ UNCHANGED <<parVars, jsVars, tpVars, extraction, fetched, pageFetch, idCall>>

\* the caller is done with the error
ErrReturn ==
    /\ pc = "errDone"
    /\ pc' = "idle"
    /\ thrown' = NoThrown
    /\ UNCHANGED <<parVars, jsVars, tpVars, extraction, fetched, pageFetch, idCall>>

\* CaptionsExtractor.extractCaptionsData(playerResponse, vid) runs
CxCall ==
    /\ pc = "idle"
    /\ \E playerResponse \in PlayerResponses, vid \in VideoIds :
           extraction' = [playerResponse |-> playerResponse, videoId |-> vid,
                          result |-> Some(extractCaptionsData(playerResponse, vid))]
    /\ pc' = "cxDone"
    /\ UNCHANGED <<parVars, jsVars, tpVars, thrown, fetched, pageFetch, idCall>>

\* the caller is done with what the extractor returned or threw
CxReturn ==
    /\ pc = "cxDone"
    /\ pc' = "idle"
    /\ extraction' = NoExtraction
    /\ UNCHANGED <<parVars, jsVars, tpVars, thrown, fetched, pageFetch, idCall>>

\* InnerTubeClient.fetchVideoInfo(vid) runs against a reply of the server
ItCall ==
    /\ pc = "idle"
    /\ \E vid \in VideoIds, reply \in Replies :
           fetched' = [videoId |-> vid, reply |-> Some(reply),
                       result |-> Some(fetchVideoInfo(vid, reply))]
    /\ pc' = "itDone"
    /\ UNCHANGED <<parVars, jsVars, tpVars, thrown, extraction, pageFetch, idCall>>

\* the caller is done with what fetchVideoInfo returned or threw
ItReturn ==
    /\ pc = "itDone"
    /\ pc' = "idle"
    /\ fetched' = NoFetch
    /\ UNCHANGED <<parVars, jsVars, tpVars, thrown, extraction, pageFetch, idCall>>

\* fetchVideoPage(vid) is entered and sends the GET of the watch page
PfCall ==
    /\ pc = "idle"
    /\ \E vid \in VideoIds :
           pageFetch' = [videoId |-> vid, sent |-> <<Request("GET", WATCH_URL(vid))>>,
                         replies |-> <<>>, result |-> <<>>]
    /\ pc' = "pfFirst"
    /\ UNCHANGED <<parVars, jsVars, tpVars, thrown, extraction, fetched, idCall>>

\* the first GET is answered; up to the POST of the consent form
PfFirstReply ==
    /\ pc = "pfFirst"
    /\ \E reply \in GetReplies :
         LET vid == pageFetch.videoId
             Done(result) ==
                 /\ pageFetch' = [pageFetch EXCEPT !.replies = Append(@, reply),
                                                   !.result = Some(result)]
                 /\ pc' = "pfDone"
         IN  IF ~reply.resolved THEN Done(PageCaught(vid, reply))
             ELSE IF reply.status # 200
             THEN Done(StatusFailure(vid, "YouTube returned status code: ", reply.status))
             ELSE IF reply.data = Undefined THEN Done(PageCaught(vid, NoIncludes))
             ELSE IF ~NeedsConsent(reply.data[1]) THEN Done(Gave(reply.data))
             ELSE IF ConsentFormMatch(reply.data[1]) = <<>>
             THEN Done(Threw(Factory("failedToCreateConsentCookie", vid,
                                     Undefined, Undefined)))
             ELSE /\ pageFetch' =
                        [pageFetch EXCEPT !.replies = Append(@, reply),
                                          !.sent = Append(@, Request("POST", ConsentUrl))]
                  /\ pc' = "pfConsent"
    /\ UNCHANGED <<parVars, jsVars, tpVars, thrown, extraction, fetched, idCall>>

\* the POST is answered; createConsentCookie ends and the second GET is sent
PfConsentReply ==
    /\ pc = "pfConsent"
    /\ \E reply \in PostReplies :
         IF ~reply.resolved
         THEN /\ pageFetch' =
                    [pageFetch EXCEPT
                        !.replies = Append(@, reply),
                        !.result = Some(ConsentCaught(pageFetch.videoId, reply))]
              /\ pc' = "pfDone"
         ELSE /\ pageFetch' =
                    [pageFetch EXCEPT
                        !.replies = Append(@, reply),
                        !.sent = Append(@, Request("GET", WATCH_URL(pageFetch.videoId)))]
              /\ pc' = "pfSecond"
    /\ UNCHANGED <<parVars, jsVars, tpVars, thrown, extraction, fetched, idCall>>

\* the second GET is answered
PfSecondReply ==
    /\ pc = "pfSecond"
    /\ \E reply \in GetReplies :
         LET vid == pageFetch.videoId
             result ==
                 IF ~reply.resolved THEN PageCaught(vid, reply)
                 ELSE IF reply.status # 200
                 THEN StatusFailure(vid, "YouTube returned status code after consent: ",
                                    reply.status)
                 ELSE Gave(reply.data)
         IN  pageFetch' = [pageFetch EXCEPT !.replies = Append(@, reply),
                                            !.result = Some(result)]
    /\ pc' = "pfDone"
    /\ UNCHANGED <<parVars, jsVars, tpVars, thrown, extraction, fetched, idCall>>

\* the caller is done with the page or the error
PfReturn ==
    /\ pc = "pfDone"
    /\ pc' = "idle"
    /\ pageFetch' = NoPageFetch
    /\ UNCHANGED <<parVars, jsVars, tpVars, thrown, extraction, fetched, idCall>>

(***************************************************************************)
(* YouTubeTranscriptApi.isValidVideoId and extractVideoId (src/src/api.ts) *)
(***************************************************************************)
IdLength == 11

\* a variant of IdChars without the hyphen
IdCharsNoHyphen ==
    {UpperCase[i] : i \in 1..Len(UpperCase)} \cup {LowerCase[i] : i \in 1..Len(LowerCase)}
        \cup Digits \cup {"_"}

\* [a-zA-Z0-9_-]
IdChars ==
    {UpperCase[i] : i \in 1..Len(UpperCase)} \cup {LowerCase[i] : i \in 1..Len(LowerCase)}
        \cup Digits \cup {"_", "-"}

\* /^[a-zA-Z0-9_-]{11}$/.test(videoId)
isValidVideoId(text) ==
    Len(text) = IdLength /\ \A i \in 1..Len(text) : text[i] \in IdChars

\* the alternatives of the first pattern, and the second pattern
WatchPrefixes == <<<<"y", "o", "u", "t", "u", "b", "e", ".", "c", "o", "m", "/", "w", "a", "t", "c", "h", "?", "v", "=">>,
 <<"y", "o", "u", "t", "u", ".", "b", "e", "/">>,
 <<"y", "o", "u", "t", "u", "b", "e", ".", "c", "o", "m", "/", "e", "m", "b", "e", "d", "/">>>>

VPrefixes == <<<<"y", "o", "u", "t", "u", "b", "e", ".", "c", "o", "m", "/", "v", "/">>>>

\* ([a-zA-Z0-9_-]{11}) at position i of url
IdAt(url, i) ==
    IF i + IdLength - 1 <= Len(url)
          /\ \A k \in i..(i + IdLength - 1) : url[k] \in IdChars
    THEN SubSeq(url, i, i + IdLength - 1)
    ELSE <<>>

\* url.match(pattern)[1] for the pattern with the alternatives prefixes:
\* the group of the leftmost match, <<>> when there is no match
RECURSIVE MatchId(_, _, _)
MatchId(url, prefixes, i) ==
    IF i > Len(url) THEN <<>>
    ELSE LET Fits == {a \in 1..Len(prefixes) :
                         /\ StartsWithAt(url, prefixes[a], i)
                         /\ IdAt(url, i + Len(prefixes[a])) # <<>>}
         IN  IF Fits # {}
             THEN LET a == CHOOSE a \in Fits : \A b \in Fits : a <= b
                  IN  IdAt(url, i + Len(prefixes[a]))
             ELSE MatchId(url, prefixes, i + 1)

\* extractVideoId: Some(id), or Undefined for null
extractVideoId(url) ==
    IF MatchId(url, WatchPrefixes, 1) # <<>> THEN Some(MatchId(url, WatchPrefixes, 1))
    ELSE IF MatchId(url, VPrefixes, 1) # <<>> THEN Some(MatchId(url, VPrefixes, 1))
    ELSE Undefined

\* the ids and urls the two functions are called on
IdTexts ==
    {<<"d", "Q", "w", "4", "w", "9", "W", "g", "X", "c", "Q">>,
     <<"_", "-", "_", "-", "_", "-", "_", "-", "_", "-", "_">>,
     <<"a", "b", "c", "1", "2", "3", "D", "E", "F", "4">>,
     <<"d", "Q", "w", "4", "w", "9", "W", "g", "X", "c", "Q", "5">>,
     <<"d", "Q", "w", "4", "@", "9", "W", "g", "X", "c", "Q">>,
     <<>>,
     <<"d", "Q", "w", "4", "w", "9", "W", "g", "X", "c", " ">>}

UrlHeads == {<<>>, <<"h", "t", "t", "p", "s", ":", "/", "/", "w", "w", "w", ".">>,
 <<"h", "t", "t", "p", "s", ":", "/", "/", "n", "o", "t">>}

UrlPrefixes ==
    {<<"y", "o", "u", "t", "u", "b", "e", ".", "c", "o", "m", "/", "w", "a", "t", "c", "h", "?", "v", "=">>,
     <<"y", "o", "u", "t", "u", ".", "b", "e", "/">>,
     <<"y", "o", "u", "t", "u", "b", "e", ".", "c", "o", "m", "/", "e", "m", "b", "e", "d", "/">>,
     <<"y", "o", "u", "t", "u", "b", "e", ".", "c", "o", "m", "/", "v", "/">>,
     <<"y", "o", "u", "t", "u", "b", "e", ".", "c", "o", "m", "/", "w", "a", "t", "c", "h", "?", "x", "=", "1", "&", "v", "=">>,
      <<"y", "o", "u", "t", "u", "b", "e", ".", "c", "o", "m", "/", "s", "h", "o", "r", "t", "s", "/">>,
      <<"e", "x", "a", "m", "p", "l", "e", ".", "c", "o", "m", "/">>,
      <<"y", "o", "u", "t", "u", "b", "e", "_", "c", "o", "m", "/", "v", "/">>}

UrlTails == {<<>>, <<"&", "t", "=", "3", "0", "s">>, <<"?", "t", "=", "3", "0">>,
 <<" ", "y", "o", "u", "t", "u", ".", "b", "e", "/", "a", "b", "c", "1", "2", "3", "D", "E", "F", "4", "5">>,
 <<"&", "u", "=", "y", "o", "u", "t", "u", "b", "e", ".", "c", "o", "m", "/", "v", "/", "a", "b", "c", "1", "2", "3", "D", "E", "F", "4", "5">>}

Urls ==
    {<<>>, <<"n", "o", "t", "-", "a", "-", "u", "r", "l">>}
    \cup {head \o prefix \o id \o tail :
             head \in UrlHeads, prefix \in UrlPrefixes, id \in IdTexts, tail \in UrlTails}

NoIdCall == [fn |-> "", arg |-> <<>>, valid |-> FALSE, id |-> Undefined]

\* YouTubeTranscriptApi.isValidVideoId(text) runs
IdValidate ==
    /\ pc = "idle"
    /\ \E text \in IdTexts :
           idCall' = [NoIdCall EXCEPT !.fn = "isValidVideoId", !.arg = text,
                                      !.valid = isValidVideoId(text)]
    /\ pc' = "idDone"
    /\ UNCHANGED <<parVars, jsVars, tpVars, thrown, extraction, fetched, pageFetch>>

\* YouTubeTranscriptApi.extractVideoId(url) runs
IdExtract ==
    /\ pc = "idle"
    /\ \E url \in Urls :
           idCall' = [NoIdCall EXCEPT !.fn = "extractVideoId", !.arg = url,
                                      !.id = extractVideoId(url)]
    /\ pc' = "idDone"
    /\ UNCHANGED <<parVars, jsVars, tpVars, thrown, extraction, fetched, pageFetch>>

\* the caller is done with the result
IdReturn ==
    /\ pc = "idDone"
    /\ pc' = "idle"
    /\ idCall' = NoIdCall
    /\ UNCHANGED <<parVars, jsVars, tpVars, thrown, extraction, fetched, pageFetch>>

(***************************************************************************)
(* Calls of parse in flight together on shared parsers                     *)
(***************************************************************************)
Callers == 1..2

\* the parsers made before any call: fields varName of each JsVarParser,
\* preserveFormatting and linkFormat of each TranscriptParser
Instances ==
    [js |-> <<NameX, <<"Y">>>>,
     tp |-> <<NewParser(FALSE, DefaultLinkFormat), NewParser(TRUE, DefaultLinkFormat),
              NewParser(FALSE, <<"[", "{text}", "]", "(", "{url}", ")">>)>>]

\* a variant of This that reads the fields of the parser made last
LastMade(objects, self) == objects[Len(objects)]

\* this: the parser a call was made on
This(objects, self) == objects[self]

NoResult == [js |-> NoOutcome, snippets |-> <<>>, error |-> NoError]

\* the frame of a call: its arguments and the constants and variables that
\* parse declares
NoCall ==
    [kind |-> "", self |-> 0, stage |-> "", text |-> <<>>, vid |-> "",
     elements |-> <<>>, idx |-> 0, snippets |-> <<>>, result |-> NoResult]

\* the texts the parsers are called on together
SharedTexts ==
    { Assign(NameX, Wrap(Quote, <<"1">>)),
      Assign(<<"Y">>, OtherLit) \o <<Space>> \o Assign(NameX, <<"{", "a", ":", "1", "}">>),
      <<Quote>> \o NameX \o <<Quote, ":", Space>> \o Wrap(Quote, <<"1">>) \o <<Space, "{">> }

SharedDocuments ==
    { Document(<<Segment(Good, Good, Link(Href, <<"t">>)),
                 Segment(<<"0">>, Good, <<Open("b", <<>>), Ch("t"), Close("b")>>)>>),
      Document(<<Segment(<<"x">>, Good, AsUnits(<<"t">>)), GoodSegment>>),
      <<Open("transcript", <<>>)>> \o GoodSegment }

\* caller c enters parse(text, vid) of a JsVarParser
ParJsCall(c) ==
    /\ pc = "idle"
    /\ calls[c].kind = ""
    /\ \E self \in 1..Len(instances.js), text \in SharedTexts, vid \in VideoIds :
           calls' = [calls EXCEPT ![c] =
                        [NoCall EXCEPT !.kind = "js", !.self = self, !.stage = "scan",
                                       !.text = text, !.vid = vid]]
    /\ UNCHANGED <<pc, instances, jsVars, tpVars, apiVars>>

\* the first strategy of the call of c
ParJsScan(c) ==
    /\ calls[c].kind = "js" /\ calls[c].stage = "scan"
    /\ LET f == calls[c]
           s == parseCharByChar(This(instances.js, f.self), f.text, f.vid)
       IN  calls' = [calls EXCEPT ![c].stage = IF s.ok THEN "done" ELSE "regex",
                                  ![c].result.js = IF s.ok THEN s ELSE NoOutcome]
    /\ UNCHANGED <<pc, instances, jsVars, tpVars, apiVars>>

\* the second strategy of the call of c
ParJsRegex(c) ==
    /\ calls[c].kind = "js" /\ calls[c].stage = "regex"
    /\ LET f == calls[c]
       IN  calls' = [calls EXCEPT
                        ![c].stage = "done",
                        ![c].result.js =
                            parseWithRegex(This(instances.js, f.self), f.text, f.vid)]
    /\ UNCHANGED <<pc, instances, jsVars, tpVars, apiVars>>

\* caller c enters parse(rawData) of a TranscriptParser
ParTpCall(c) ==
    /\ pc = "idle"
    /\ calls[c].kind = ""
    /\ \E self \in 1..Len(instances.tp), document \in SharedDocuments :
           calls' = [calls EXCEPT ![c] =
                        [NoCall EXCEPT !.kind = "tp", !.self = self, !.stage = "load",
                                       !.text = document]]
    /\ UNCHANGED <<pc, instances, jsVars, tpVars, apiVars>>

\* the checks, the load and the selection in the call of c
ParTpLoad(c) ==
    /\ calls[c].kind = "tp" /\ calls[c].stage = "load"
    /\ LET f == calls[c]
       IN  IF StructureError(f.text) # ""
           THEN calls' = [calls EXCEPT
                             ![c].stage = "done",
                             ![c].result.error =
                                 PlainError("Failed to parse transcript XML",
                                            StructureError(f.text))]
           ELSE calls' = [calls EXCEPT
                             ![c].stage = "each", ![c].idx = 1,
                             ![c].elements = Select(LoadXml(f.text), "text")]
    /\ UNCHANGED <<pc, instances, jsVars, tpVars, apiVars>>

\* the callback on the next element in the call of c
ParTpEach(c) ==
    /\ calls[c].kind = "tp" /\ calls[c].stage = "each"
    /\ calls[c].idx <= Len(calls[c].elements)
    /\ LET f == calls[c]
           this == This(instances.tp, f.self)
           s == EachText(f.elements[f.idx], this.preserveFormatting, this.linkFormat)
       IN  calls' = [calls EXCEPT
                        ![c].idx = f.idx + 1,
                        ![c].snippets =
                            IF s.some
                            THEN Push(f.snippets, [text |-> s.text, start |-> s.start,
                                                   duration |-> s.duration])
                            ELSE f.snippets]
    /\ UNCHANGED <<pc, instances, jsVars, tpVars, apiVars>>

\* return snippets in the call of c
ParTpFinish(c) ==
    /\ calls[c].kind = "tp" /\ calls[c].stage = "each"
    /\ calls[c].idx > Len(calls[c].elements)
    /\ calls' = [calls EXCEPT ![c].stage = "done",
                              ![c].result.snippets = calls[c].snippets]
    /\ UNCHANGED <<pc, instances, jsVars, tpVars, apiVars>>

\* caller c is done with the result
ParReturn(c) ==
    /\ calls[c].stage = "done"
    /\ calls' = [calls EXCEPT ![c] = NoCall]
    /\ UNCHANGED <<pc, instances, jsVars, tpVars, apiVars>>

Init ==
    /\ pc = "idle"
    /\ varName = <<>>
    /\ html = <<>>
    /\ videoId = ""
    /\ shape = NoShape
    /\ scanned = NoOutcome
    /\ outcome = NoOutcome
    /\ prior = NoOutcome
    /\ config = NoConfig
    /\ rawData = <<>>
    /\ elements = <<>>
    /\ idx = 0
    /\ snippets = <<>>
    /\ sources = <<>>
    /\ tpError = NoError
    /\ thrown = NoThrown
    /\ extraction = NoExtraction
    /\ fetched = NoFetch
    /\ pageFetch = NoPageFetch
    /\ idCall = NoIdCall
    /\ instances = Instances
    /\ calls = [c \in Callers |-> NoCall]

vars == <<pc, jsVars, tpVars, apiVars, parVars>>

Next ==
    \/ JsCall \/ JsScan \/ JsRegex \/ JsAgain \/ JsReturn
    \/ TpCall \/ TpRefused \/ TpLoad \/ TpEach \/ TpFinish \/ TpReturn
    \/ ErrNew \/ ErrFactory \/ ErrReturn
    \/ CxCall \/ CxReturn
    \/ ItCall \/ ItReturn
    \/ IdValidate \/ IdExtract \/ IdReturn
    \/ PfCall \/ PfFirstReply \/ PfConsentReply \/ PfSecondReply \/ PfReturn

Spec == Init /\ [][Next]_vars

\* the calls of parse that run together
NextShared ==
    \E c \in Callers :
        \/ ParJsCall(c) \/ ParJsScan(c) \/ ParJsRegex(c)
        \/ ParTpCall(c) \/ ParTpLoad(c) \/ ParTpEach(c) \/ ParTpFinish(c)
        \/ ParReturn(c)

SpecShared == Init /\ [][NextShared]_vars

(***************************************************************************)
(* What the claims speak of                                                *)
(***************************************************************************)
\* Where the object that opens at position 1 of l closes, braces inside
\* string literals not counted; 0 when it never closes.
RECURSIVE CloseOf(_, _, _, _)
CloseOf(l, i, depth, q) ==
    IF i > Len(l) THEN 0
    ELSE IF q # "" THEN
        IF l[i] = Bksl THEN CloseOf(l, i + 2, depth, q)
        ELSE IF l[i] = q THEN CloseOf(l, i + 1, depth, "")
        ELSE CloseOf(l, i + 1, depth, q)
    ELSE IF l[i] = Quote \/ l[i] = Apos THEN CloseOf(l, i + 1, depth, l[i])
    ELSE IF l[i] = "{" THEN CloseOf(l, i + 1, depth + 1, "")
    ELSE IF l[i] = "}" THEN
        (IF depth = 1 THEN i ELSE CloseOf(l, i + 1, depth - 1, ""))
    ELSE CloseOf(l, i + 1, depth, "")

\* l is one object literal with balanced braces
Balanced(l) == l # <<>> /\ l[1] = "{" /\ CloseOf(l, 1, 0, "") = Len(l)

\* l with its single-quoted keys and values written with double quotes
RECURSIVE DoubleQuoted(_, _, _)
DoubleQuoted(l, i, q) ==
    IF i > Len(l) THEN <<>>
    ELSE IF q = "" THEN
        IF l[i] = Apos THEN <<Quote>> \o DoubleQuoted(l, i + 1, Apos)
        ELSE <<l[i]>> \o DoubleQuoted(l, i + 1, IF l[i] = Quote THEN Quote ELSE "")
    ELSE IF l[i] = Bksl /\ i < Len(l) THEN
        (IF q = Apos /\ l[i + 1] = Apos THEN <<Apos>> ELSE <<Bksl, l[i + 1]>>)
            \o DoubleQuoted(l, i + 2, q)
    ELSE IF l[i] = q THEN <<Quote>> \o DoubleQuoted(l, i + 1, "")
    ELSE IF l[i] = Quote THEN <<Bksl, Quote>> \o DoubleQuoted(l, i + 1, q)
    ELSE <<l[i]>> \o DoubleQuoted(l, i + 1, q)

\* the value the literal l denotes
Denoted(l) == JsonParse(DoubleQuoted(l, 1, ""))

\* html is exactly `var X = <literal>;` and the parser looks for X
PlainAssignment ==
    /\ varName = NameX
    /\ shape.pre = <<>> /\ shape.post = <<>>
    /\ shape.head = HeadVar /\ shape.term = <<";">>

\* C1: when the text is `var NAME = {...};` and the literal has balanced
\* braces and denotes a value, with double or single quotes and at any depth,
\* parse returns that value.
C1_BalancedLiteralIsParsed ==
    (pc = "jsDone" /\ PlainAssignment /\ Balanced(shape.lit) /\ Denoted(shape.lit).ok)
        => (outcome.ok /\ outcome.value = Denoted(shape.lit).val)

\* the text after the first occurrence of the marker parse looks for, from
\* its first "{" on, up to the end of html
Following ==
    LET marker == MarkerOf(varName, html)
        rest == SubSeq(html, IndexOf(html, marker, 1) + Len(marker), Len(html))
        open == IndexOf(rest, <<"{">>, 1)
    IN  IF marker = <<>> \/ open = 0 THEN <<>> ELSE SubSeq(rest, open, Len(rest))

NameAbsent == ~Contains(html, varName)
\* the object that follows the name is never closed
NeverClosed == Following # <<>> /\ CloseOf(Following, 1, 0, "") = 0
\* the object that follows the name is closed, and is not valid JSON
BodyNotJson ==
    /\ Following # <<>> /\ CloseOf(Following, 1, 0, "") # 0
    /\ ~JsonParse(SubSeq(Following, 1, CloseOf(Following, 1, 0, ""))).ok

FallbackRecovers ==
    \E n \in 1..3 :
        /\ Match(n, varName, html) # <<>>
        /\ JsonParse(ReplaceQuotes(Match(n, varName, html), 1)).ok

C3_OnlyDataUnparsableEscapes ==
    (pc = "jsDone" /\ ~outcome.ok) =>
        /\ outcome.errType = CouldNotRetrieve
        /\ outcome.reason = DataUnparsable
        /\ outcome.videoId = videoId

\* C4: parsing `var NAME = S;`, S being the substring a successful call
\* extracted, succeeds with the value of that call.
C4_ExtractionIsIdempotent ==
    (pc = "jsDone" /\ prior # NoOutcome) =>
        (outcome.ok /\ outcome.value = prior.value)

\* html holds the assignment `var X = <literal>;` of a valid literal and,
\* before or after it, the assignment of another variable
SeveralAssignments ==
    /\ varName = NameX
    /\ shape.head = HeadVar /\ shape.term = <<";">>
    /\ Balanced(shape.lit) /\ JsonParse(shape.lit).ok
    /\ \/ \E other \in {<<"Y">>, <<"X", "Y">>} :
               shape.pre = Assign(other, OtherLit) \o <<Space>>
       \/ shape.post = <<Space>> \o Assign(<<"Y">>, OtherLit)

\* C5: among several assignments parse returns the object assigned to NAME.
C5_ReturnsTheNamedVariable ==
    (pc = "jsDone" /\ SeveralAssignments) =>
        (outcome.ok /\ outcome.value = JsonParse(shape.lit).val)

\* parse returned its snippets
TpReturned == pc = "tpDone" /\ tpError = NoError

Contributors == {sources[i] : i \in DOMAIN sources}

\* the whole value is a number: a sign, digits, a fraction, and nothing else
Numeric(s) ==
    LET b == IF s # <<>> /\ s[1] = "-" THEN 2 ELSE 1
        c == DigitsEnd(s, b)
        d == IF c <= Len(s) /\ s[c] = "." THEN DigitsEnd(s, c + 1) ELSE c
    IN  c > b /\ d = Len(s) + 1 /\ (d = c \/ d > c + 1)

\* the element has a start and a dur and both are numbers
Timed(element) ==
    /\ Attr(element.attrs, "start").has /\ Numeric(Attr(element.attrs, "start").val)
    /\ Attr(element.attrs, "dur").has /\ Numeric(Attr(element.attrs, "dur").val)

\* what the element's content is rendered to, white space cleaned
RenderedText(element) ==
    LET decoded == decodeHtmlEntities(Serialize(element.kids, TRUE)) IN
    CleanWhitespace(IF config.preserveFormatting
                    THEN processWithFormatting(decoded, config.linkFormat)
                    ELSE htmlToPlainText(decoded, config.linkFormat))

\* C6: a segment without start or dur, or with a start or dur that is not a
\* number, contributes no snippet, and a segment with both and with text
\* contributes one.
C6_OnlyTimedSegmentsContribute ==
    TpReturned =>
        \A j \in DOMAIN elements :
            /\ ~Timed(elements[j]) => j \notin Contributors
            /\ (Timed(elements[j]) /\ RenderedText(elements[j]) # <<>>)
                  => j \in Contributors

\* C7: no snippet has an empty text, at any point of the loop, and a segment
\* whose rendered text is empty has pushed none.
C7_NoEmptySnippetText ==
    /\ \A i \in DOMAIN snippets :
          snippets[i].text # <<>> /\ ~(\A n \in DOMAIN snippets[i].text : IsWs(snippets[i].text[n]))
    /\ pc \in {"tpEach", "tpDone"} =>
          \A j \in DOMAIN elements :
              (j < idx /\ RenderedText(elements[j]) = <<>>) => j \notin Contributors

\* parse returned a snippet and skipped a timed segment whose text was empty
C7_Witness ==
    /\ TpReturned /\ snippets # <<>>
    /\ \E j \in DOMAIN elements :
          Timed(elements[j]) /\ RenderedText(elements[j]) = <<>> /\ j \notin Contributors

\* C8: start and duration of every snippet are at least 0.
C8_TimesAreNotNegative ==
    \A i \in DOMAIN snippets :
        snippets[i].start.milli >= 0 /\ snippets[i].duration.milli >= 0

\* the attributes of the <text> start tags of the document, in text order
RECURSIVE TextTags(_)
TextTags(raw) ==
    IF raw = <<>> THEN <<>>
    ELSE (IF raw[1].k = "open" /\ raw[1].v = "text" THEN <<raw[1].attrs>> ELSE <<>>)
            \o TextTags(Tail(raw))

\* C9: the loop visits the segments in the order of the document, every
\* segment pushes at most one snippet, the snippets stand in the order of
\* their segments, and each segment that yields a snippet has its own, equal
\* segments included.
C9_SnippetsInDocumentOrder ==
    pc \in {"tpEach", "tpDone"} /\ tpError = NoError =>
        /\ Len(elements) = Len(TextTags(rawData))
        /\ \A j \in DOMAIN elements : elements[j].attrs = TextTags(rawData)[j]
        /\ Len(sources) = Len(snippets)
        /\ \A i \in DOMAIN sources :
              /\ i > 1 => sources[i - 1] < sources[i]
              /\ LET s == EachText(elements[sources[i]], config.preserveFormatting,
                                   config.linkFormat)
                 IN  s.some /\ snippets[i].text = s.text /\ snippets[i].start = s.start
                            /\ snippets[i].duration = s.duration
        /\ \A j \in DOMAIN elements :
              (j < idx /\ EachText(elements[j], config.preserveFormatting,
                                   config.linkFormat).some) => j \in Contributors

\* two equal segments of one document each gave a snippet
C9_Witness ==
    /\ TpReturned /\ Len(elements) = 2 /\ Len(snippets) = 2
    /\ elements[1] = elements[2]
    /\ snippets[1] = snippets[2]

\* the link format with {text} and {url} replaced, character for character
RECURSIVE Filled(_, _, _)
Filled(linkFormat, linkText, href) ==
    IF linkFormat = <<>> THEN <<>>
    ELSE (CASE linkFormat[1] = "{text}" -> linkText
            [] linkFormat[1] = "{url}"  -> href
            [] OTHER                    -> <<linkFormat[1]>>)
            \o Filled(Tail(linkFormat), linkText, href)

\* the plain text of a segment as C10 states it: an anchor with an href and
\* a text is its filled link format, any other anchor its text
RECURSIVE PlainAsStated(_)
PlainAsStated(nodes) ==
    IF nodes = <<>> THEN <<>>
    ELSE LET n == nodes[1]
             href == Attr(n.attrs, "href")
             here == IF n.k = "tx" THEN <<n.v>>
                     ELSE IF n.v # "a" THEN PlainAsStated(n.kids)
                     ELSE IF href.has /\ href.val # <<>> /\ TextContent(n.kids) # <<>>
                         THEN Filled(config.linkFormat, TextContent(n.kids), href.val)
                     ELSE TextContent(n.kids)
         IN  here \o PlainAsStated(Tail(nodes))

\* C10: in plain mode the text of a snippet is the text of its segment with
\* every anchor rendered as stated.
C10_AnchorsRenderedByLinkFormat ==
    (TpReturned /\ ~config.preserveFormatting) =>
        \A i \in DOMAIN snippets :
            snippets[i].text =
                CleanWhitespace(AsUnits(PlainAsStated(elements[sources[i]].kids)))

\* the markup of a segment as C11 states it: an element of the allow-list
\* stays as it is written, any other element gives way to its content
RECURSIVE FormattedAsStated(_)
FormattedAsStated(nodes) ==
    IF nodes = <<>> THEN <<>>
    ELSE LET n == nodes[1] IN
         (IF n.k = "tx" THEN <<Ch(EscapeHtml(n.v))>>
          ELSE IF n.v \in FORMATTING_TAGS
              THEN <<Open(n.v, n.attrs)>> \o FormattedAsStated(n.kids) \o <<Close(n.v)>>
          ELSE FormattedAsStated(n.kids))
            \o FormattedAsStated(Tail(nodes))

\* C11: in formatting mode the text of a snippet is the markup of its
\* segment with the elements of the allow-list kept and every other element
\* replaced by its content.
C11_AllowListKeptOthersUnwrapped ==
    (TpReturned /\ config.preserveFormatting) =>
        \A i \in DOMAIN snippets :
            snippets[i].text =
                CleanWhitespace(FormattedAsStated(elements[sources[i]].kids))

\* the element is exactly one anchor with an href and a text
OneLink(element) ==
    /\ Len(element.kids) = 1 /\ element.kids[1].k = "el" /\ element.kids[1].v = "a"
    /\ Attr(element.kids[1].attrs, "href").has
    /\ Attr(element.kids[1].attrs, "href").val # <<>>
    /\ TextContent(element.kids[1].kids) # <<>>

\* C12: under a custom link format, a segment that is one anchor with text t
\* and href u gives the link format with {text} replaced by t and {url} by u,
\* whatever the characters of t and u.
C12_CustomLinkFormatFilledExactly ==
    (TpReturned /\ config.linkFormat # DefaultLinkFormat) =>
        \A i \in DOMAIN snippets :
            OneLink(elements[sources[i]]) =>
                snippets[i].text =
                    CleanWhitespace(AsUnits(Filled(config.linkFormat,
                        TextContent(elements[sources[i]].kids[1].kids),
                        Attr(elements[sources[i]].kids[1].attrs, "href").val)))

\* C13: a parser that exists has a link format with both placeholders.
C13_ParserHoldsBothPlaceholders ==
    config # NoConfig =>
        /\ Contains(config.linkFormat, <<"{text}">>)
        /\ Contains(config.linkFormat, <<"{url}">>)

\* parse was called and has returned or thrown
TpEnded == pc = "tpDone" /\ config # NoConfig

\* the start tags and the end tags of <text> in the document
TextStartTags ==
    Cardinality({i \in DOMAIN rawData : rawData[i].k = "open" /\ rawData[i].v = "text"})
TextEndTags ==
    Cardinality({i \in DOMAIN rawData : rawData[i].k = "close" /\ rawData[i].v = "text"})

RootOpened == \E i \in DOMAIN rawData : rawData[i].k = "open" /\ rawData[i].v = "transcript"
RootClosed == \E i \in DOMAIN rawData : rawData[i].k = "close" /\ rawData[i].v = "transcript"

\* C14: when the document lacks the start or the end of the root, or has not
\* as many <text> start tags as end tags, parse throws "Failed to parse
\* transcript XML..." and no snippet is returned.
C14_StructuralFailureIsTotal ==
    (TpEnded /\ (~RootOpened \/ ~RootClosed \/ TextStartTags # TextEndTags)) =>
        /\ tpError.prefix = "Failed to parse transcript XML"
        /\ snippets = <<>>

\* C15: the text of a snippet neither begins nor ends with white space, its
\* only white space character is the space, and no two of them are adjacent.
C15_TextIsWhitespaceNormalized ==
    \A i \in DOMAIN snippets :
        LET x == snippets[i].text IN
        /\ x # <<>> => (~IsWs(x[1]) /\ ~IsWs(x[Len(x)]))
        /\ \A n \in DOMAIN x :
              IsWs(x[n]) => (x[n].v = Space /\ (n > 1 => ~IsWs(x[n - 1])))

\* a segment whose content begins with white space and holds a run of a
\* space and a newline gave a snippet in which one space stands for the run
C15_Witness ==
    /\ TpReturned
    /\ \E i \in DOMAIN snippets :
          LET kids == elements[sources[i]].kids IN
          /\ kids # <<>> /\ kids[1] = Tx(Space)
          /\ \E n \in DOMAIN kids : n > 1 /\ kids[n] = Tx("\n") /\ kids[n - 1] = Tx(Space)
          /\ \E n \in DOMAIN snippets[i].text : snippets[i].text[n] = Ch(Space)

\* the content of the element is text only
TextOnlyContent(element) == \A n \in DOMAIN element.kids : element.kids[n].k = "tx"

\* C16: in plain mode the text of a snippet whose segment holds text only is
\* the characters of the segment with every character reference replaced by
\* the character it stands for, so that &lt;t&gt; gives <t>.
C16_EntitiesBecomeLiteralCharacters ==
    (TpReturned /\ ~config.preserveFormatting) =>
        \A i \in DOMAIN snippets :
            TextOnlyContent(elements[sources[i]]) =>
                snippets[i].text =
                    CleanWhitespace(AsUnits(TextContent(elements[sources[i]].kids)))

\* C17: a failure that leaves JsVarParser.parse or TranscriptParser.parse
\* has a reason, a tag apart from its message.
C17_FailuresCarryAKind ==
    /\ (pc = "jsDone" /\ ~outcome.ok) => outcome.reason # ""
    /\ (TpEnded /\ tpError # NoError) => tpError.reason # ""

\* The error the constructor or a factory has just built.
ErrBuilt == pc = "errDone"

TheError == thrown.error[1]

Sentence(vid) == "Could not retrieve a transcript for the video " \o vid \o "!"

\* the enum member each factory is named after
SameName ==
    [transcriptsDisabled |-> "TRANSCRIPTS_DISABLED",
     noTranscriptFound |-> "NO_TRANSCRIPT_FOUND",
     videoUnavailable |-> "VIDEO_UNAVAILABLE",
     videoUnplayable |-> "VIDEO_UNPLAYABLE",
     ipBlocked |-> "IP_BLOCKED",
     requestBlocked |-> "REQUEST_BLOCKED",
     translationUnavailable |-> "TRANSLATION_UNAVAILABLE",
     translationLanguageUnavailable |-> "TRANSLATION_LANGUAGE_UNAVAILABLE",
     failedToCreateConsentCookie |-> "FAILED_TO_CREATE_CONSENT_COOKIE",
     youTubeRequestFailed |-> "YOUTUBE_REQUEST_FAILED",
     invalidVideoId |-> "INVALID_VIDEO_ID",
     ageRestricted |-> "AGE_RESTRICTED",
     youTubeDataUnparsable |-> "YOUTUBE_DATA_UNPARSABLE"]

Thirteen == {SameName[n] : n \in DOMAIN SameName}

\* C18: the message of a CouldNotRetrieveTranscript is the sentence naming the
\* video when there is no reason, and the sentence, one space and the cause
\* text of the reason otherwise; a factory gives the video id it was handed
\* and the reason of its own name; no reason of the enum has the cause
\* "Unknown error".
C18_MessageIsSentenceAndCause ==
    ErrBuilt =>
        LET e == TheError
        IN  /\ e.message =
                  IF ~TruthyText(e.reason) THEN Sentence(e.videoId)
                  ELSE Sentence(e.videoId) \o " " \o Cause(e.reason[1], e.reasonData)
            /\ (TruthyText(e.reason) /\ e.reason[1] \in Thirteen)
                   => Cause(e.reason[1], e.reasonData) # "Unknown error"
            /\ thrown.by \in DOMAIN SameName
                   => e.videoId = thrown.args[1] /\ e.reason = Some(SameName[thrown.by])
            /\ thrown.by = "new"
                   => /\ e.videoId = thrown.args[1]
                      /\ e.reason = thrown.args[2]
                      /\ e.reasonData = thrown.args[3]

C18_Witness ==
    /\ ErrBuilt
    /\ thrown.by = "youTubeRequestFailed"
    /\ TheError.videoId = "vid1"
    /\ TheError.message =
           "Could not retrieve a transcript for the video vid1! The request to YouTube failed: d"

\* What extractCaptionsData was given and what it gave.
CxEnded == pc = "cxDone"

CxResult == extraction.result[1]

IsPresent(v) == v.t \notin {"undefined", "null"}

GivenRenderer ==
    LET pr == extraction.playerResponse
        captions == IF IsPresent(pr) THEN Get(pr, "captions") ELSE JsUndefined
    IN  IF IsPresent(captions) THEN Get(captions, "playerCaptionsTracklistRenderer")
        ELSE JsUndefined

\* C19: extractCaptionsData returns playerResponse.captions
\* .playerCaptionsTracklistRenderer as it is, an empty object included, when
\* the response, its captions and the renderer are there; when any of them is
\* missing or null it throws CouldNotRetrieveTranscript with the reason
\* TRANSCRIPTS_DISABLED and the video id it was given.
C19_RendererReturnedOrTranscriptsDisabled ==
    CxEnded =>
        IF IsPresent(GivenRenderer)
        THEN CxResult.ok /\ CxResult.value = GivenRenderer
        ELSE /\ ~CxResult.ok
             /\ CxResult.error[1].name = "CouldNotRetrieveTranscript"
             /\ CxResult.error[1].reason = Some("TRANSCRIPTS_DISABLED")
             /\ CxResult.error[1].videoId = extraction.videoId

C19_Witness ==
    /\ CxEnded
    /\ extraction.playerResponse =
           JsObject({<<"captions",
                       JsObject({<<"playerCaptionsTracklistRenderer", JsObject({})>>})>>})
    /\ CxResult.ok
    /\ CxResult.value = JsObject({})

\* What fetchVideoInfo was answered and what it gave.
ItEnded == pc = "itDone"

ItReply == fetched.reply[1]

ItResult == fetched.result[1]

ItError == ItResult.error[1]

GivenStatus == Get(ItReply.data, "playabilityStatus")

StatusIs(text) ==
    /\ ItReply.resolved
    /\ IsPresent(GivenStatus)
    /\ Get(GivenStatus, "status") = JsString(text)

GivenReason == Get(GivenStatus, "reason")

SaysPoToken ==
    /\ GivenReason.t = "string"
    /\ \E i \in 1..Len(GivenReason.text), j \in 1..Len(GivenReason.text) :
           toLowerCase(SubSeq(GivenReason.text, i, j))
               \in {<<"p", "o", " ", "t", "o", "k", "e", "n">>, <<"p", "r", "o", "o", "f", " ", "o", "f", " ", "o", "r", "i", "g", "i", "n">>}

\* the texts of the error screen of the reply, in the order reason, subreason
GivenSubReasons ==
    LET renderer == Get(Get(GivenStatus, "errorScreen"), "playerErrorMessageRenderer")
        TextOfPart(part) ==
            LET simpleText == Get(Get(renderer, part), "simpleText")
            IN  IF IsPresent(simpleText) THEN <<Str(simpleText.text)>> ELSE <<>>
    IN  TextOfPart("reason") \o TextOfPart("subreason")

FailsWith(reason) ==
    /\ ~ItResult.ok
    /\ ItError.name = "CouldNotRetrieveTranscript"
    /\ ItError.reason = Some(reason)
    /\ ItError.videoId = fetched.videoId

\* C20: fetchVideoInfo returns the response when it has no playabilityStatus
\* or the status is OK, and in no other case; UNPLAYABLE gives
\* VIDEO_UNPLAYABLE with the reason and the sub-reasons of the reply,
\* LOGIN_REQUIRED and CONTENT_CHECK_REQUIRED give AGE_RESTRICTED, ERROR gives
\* PoTokenRequired when its reason speaks of a PO token and VIDEO_UNAVAILABLE
\* when it does not, and every other status gives VIDEO_UNAVAILABLE.
C20_PlayabilityStatusDecides ==
    ItEnded =>
        /\ ItResult.ok =>
              /\ ItReply.resolved /\ ItResult.value = ItReply.data
              /\ ~IsPresent(GivenStatus) \/ StatusIs(OK)
        /\ (ItReply.resolved /\ ItReply.data.t = "object"
                /\ (~IsPresent(GivenStatus) \/ StatusIs(OK)))
              => ItResult.ok
        /\ StatusIs(UNPLAYABLE) =>
              /\ FailsWith("VIDEO_UNPLAYABLE")
              /\ ItError.reasonData[1].reason =
                    Some(IF GivenReason.t = "string" /\ GivenReason.text # <<>>
                         THEN Str(GivenReason.text) ELSE "Video is unplayable")
              /\ ItError.reasonData[1].subReasons = Some(GivenSubReasons)
        /\ (StatusIs(LOGIN_REQUIRED) \/ StatusIs(CONTENT_CHECK_REQUIRED))
              => FailsWith("AGE_RESTRICTED")
        /\ (StatusIs(ERROR) /\ SaysPoToken) =>
              /\ ~ItResult.ok
              /\ ItError.name = "PoTokenRequired"
              /\ ItError.videoId = fetched.videoId
        /\ (StatusIs(ERROR) /\ ~SaysPoToken) => FailsWith("VIDEO_UNAVAILABLE")
        /\ (/\ ItReply.resolved /\ IsPresent(GivenStatus)
            /\ \A known \in {OK, UNPLAYABLE, LOGIN_REQUIRED, ERROR,
                             CONTENT_CHECK_REQUIRED} : ~StatusIs(known))
              => FailsWith("VIDEO_UNAVAILABLE")

C20_Witness ==
    /\ ItEnded
    /\ StatusIs(ERROR)
    /\ GivenReason = JsString(<<"P", "O", " ", "T", "o", "k", "e", "n">>)
    /\ ItError.name = "PoTokenRequired"

\* The error the playability check raised in this call, Undefined if the
\* check was not made or passed.
RaisedByCheck ==
    IF ItReply.resolved /\ ItReply.data.t = "object" /\ IsPresent(GivenStatus)
    THEN handlePlayabilityStatus(fetched.videoId, GivenStatus)
    ELSE Undefined

\* the reason the claim gives for an error that the check did not raise
ReasonByStatus(status) ==
    IF status \in {403, 429} THEN "IP_BLOCKED"
    ELSE IF status \in 400..499 THEN "REQUEST_BLOCKED"
    ELSE "YOUTUBE_REQUEST_FAILED"

Classified ==
    IF RaisedByCheck # Undefined THEN ItError = RaisedByCheck[1]
    ELSE FailsWith(ReasonByStatus(ItReply.status))

PfEnded == pc = "pfDone"

PfResult == pageFetch.result[1]

Methods == [i \in 1..Len(pageFetch.sent) |-> pageFetch.sent[i].method]

FirstPage == pageFetch.replies[1].data

HasMarker ==
    /\ Len(pageFetch.replies) >= 1
    /\ pageFetch.replies[1].resolved
    /\ FirstPage # Undefined
    /\ \E i \in 1..Len(FirstPage[1]) :
           FirstPage[1][i] = "action=\"https://consent.youtube.com/s\""

GotFirstPage ==
    /\ Len(pageFetch.replies) >= 1
    /\ pageFetch.replies[1].resolved
    /\ pageFetch.replies[1].status = 200
    /\ FirstPage # Undefined

UrlsAsStated ==
    \A i \in 1..Len(pageFetch.sent) :
        pageFetch.sent[i].url =
            IF pageFetch.sent[i].method = "POST"
            THEN "https://consent.youtube.com/s"
            ELSE "https://www.youtube.com/watch?v=" \o pageFetch.videoId

\* C22 as stated: a call that got its first page has sent GET, POST, GET if
\* the page holds the consent form marker and one GET if it does not.
C22_MarkerMeansPostAndSecondGet ==
    (PfEnded /\ GotFirstPage) =>
        /\ UrlsAsStated
        /\ Methods = IF HasMarker THEN <<"GET", "POST", "GET">> ELSE <<"GET">>

\* C22: fetchVideoPage sends its requests in the order GET, POST, GET and
\* never more; the POST goes to https://consent.youtube.com/s and is sent if
\* and only if the first page holds the consent form marker and the consent
\* form is matched in it; the second GET is sent if and only if the POST was
\* answered, and its body is what the call returns, whatever that page holds.
\* Without the marker there is one GET, whose body is returned.
C22_RequestOrderIsFixed ==
    /\ pc \in {"pfFirst", "pfConsent", "pfSecond", "pfDone"} =>
          /\ Methods \in {<<"GET">>, <<"GET", "POST">>, <<"GET", "POST", "GET">>}
          /\ UrlsAsStated
    /\ (PfEnded /\ GotFirstPage) =>
          /\ Len(Methods) >= 2 <=> (HasMarker /\ ConsentFormMatch(FirstPage[1]) # <<>>)
          /\ Len(Methods) = 3 <=> (Len(Methods) >= 2 /\ pageFetch.replies[2].resolved)
          /\ ~HasMarker => PfResult.ok /\ PfResult.value = FirstPage
          /\ HasMarker =>
                (PfResult.ok <=>
                    (Len(Methods) = 3 /\ pageFetch.replies[3].resolved
                        /\ pageFetch.replies[3].status = 200))
          /\ (HasMarker /\ PfResult.ok) => PfResult.value = pageFetch.replies[3].data
    /\ (PfEnded /\ ~GotFirstPage) => Methods = <<"GET">> /\ ~PfResult.ok

C22_Witness ==
    /\ PfEnded
    /\ PfResult.ok
    /\ Methods = <<"GET", "POST", "GET">>
    /\ pageFetch.replies[3].data = Some(ConsentPage)
    /\ PfResult.value = Some(ConsentPage)

\* The consent step of this call was entered and failed: the form was not
\* matched in a first page that holds the marker, or the POST was rejected.
ConsentFailed ==
    /\ PfEnded /\ GotFirstPage /\ HasMarker
    /\ \/ Len(pageFetch.replies) = 1
       \/ ~pageFetch.replies[2].resolved

\* C29: when the consent step fails, because the form is not matched or the
\* POST is rejected with whatever status, fetchVideoPage fails with
\* FAILED_TO_CREATE_CONSENT_COOKIE for the video asked for and has sent no
\* second GET.
C29_ConsentFailureIsItsOwnReason ==
    ConsentFailed =>
        /\ ~PfResult.ok
        /\ PfResult.error[1].name = "CouldNotRetrieveTranscript"
        /\ PfResult.error[1].reason = Some("FAILED_TO_CREATE_CONSENT_COOKIE")
        /\ PfResult.error[1].videoId = pageFetch.videoId
        /\ Cardinality({i \in 1..Len(Methods) : Methods[i] = "GET"}) = 1

C29_Witness ==
    /\ ConsentFailed
    /\ Methods = <<"GET", "POST">>
    /\ pageFetch.replies[2].axios
    /\ pageFetch.replies[2].status = 403
    /\ PfResult.error[1].reason = Some("FAILED_TO_CREATE_CONSENT_COOKIE")

\* What a call of parse gives when no other call is in flight.
AloneJs(name, text, vid) ==
    LET s == parseCharByChar(name, text, vid)
    IN  IF s.ok THEN s ELSE parseWithRegex(name, text, vid)

RECURSIVE SnippetsAlone(_, _, _)
SnippetsAlone(elems, i, parser) ==
    IF i > Len(elems) THEN <<>>
    ELSE LET s == EachText(elems[i], parser.preserveFormatting, parser.linkFormat)
         IN  (IF s.some
              THEN <<[text |-> s.text, start |-> s.start, duration |-> s.duration]>>
              ELSE <<>>)
             \o SnippetsAlone(elems, i + 1, parser)

AloneTp(parser, raw) ==
    IF StructureError(raw) # ""
    THEN [NoResult EXCEPT !.error = PlainError("Failed to parse transcript XML",
                                               StructureError(raw))]
    ELSE [NoResult EXCEPT !.snippets =
                              SnippetsAlone(Select(LoadXml(raw), "text"), 1, parser)]

\* C23: the fields of the parsers stay as they were made, and a call of
\* JsVarParser.parse or TranscriptParser.parse that ends, whatever other call
\* ran in between on the same or another parser, gives what it gives alone.
C23_CallsDoNotInterfere ==
    /\ instances = Instances
    /\ \A c \in Callers :
          calls[c].stage = "done" =>
              IF calls[c].kind = "js"
              THEN calls[c].result =
                      [NoResult EXCEPT !.js = AloneJs(Instances.js[calls[c].self],
                                                      calls[c].text, calls[c].vid)]
              ELSE calls[c].result = AloneTp(Instances.tp[calls[c].self], calls[c].text)

\* one call has ended on a parser on which another call, of another document,
\* is half way through its elements
C23_Witness ==
    /\ calls[1].kind = "tp" /\ calls[1].stage = "done"
    /\ Len(calls[1].result.snippets) = 2
    /\ calls[2].kind = "tp" /\ calls[2].stage = "each" /\ calls[2].idx = 2
    /\ calls[2].self = calls[1].self
    /\ calls[2].text # calls[1].text

\* The call of isValidVideoId or extractVideoId that has just ended.
IdEnded(fn) == pc = "idDone" /\ idCall.fn = fn

IdAlphabet ==
    {"a", "b", "c", "d", "e", "f", "g", "h", "i", "j", "k", "l", "m",
     "n", "o", "p", "q", "r", "s", "t", "u", "v", "w", "x", "y", "z",
     "A", "B", "C", "D", "E", "F", "G", "H", "I", "J", "K", "L", "M",
     "N", "O", "P", "Q", "R", "S", "T", "U", "V", "W", "X", "Y", "Z",
     "0", "1", "2", "3", "4", "5", "6", "7", "8", "9", "_", "-"}

WellFormedId(text) == Len(text) = 11 /\ \A i \in 1..Len(text) : text[i] \in IdAlphabet

\* text stands in url right after one of the four prefixes
Follows(url, text) ==
    \E prefix \in {<<"y", "o", "u", "t", "u", "b", "e", ".", "c", "o", "m", "/", "w", "a", "t", "c", "h", "?", "v", "=">>,
                   <<"y", "o", "u", "t", "u", ".", "b", "e", "/">>,
                   <<"y", "o", "u", "t", "u", "b", "e", ".", "c", "o", "m", "/", "e", "m", "b", "e", "d", "/">>,
                   <<"y", "o", "u", "t", "u", "b", "e", ".", "c", "o", "m", "/", "v", "/">>} :
        \E i \in 1..Len(url) :
            /\ i + Len(prefix) + Len(text) - 1 <= Len(url)
            /\ SubSeq(url, i, i + Len(prefix) - 1) = prefix
            /\ SubSeq(url, i + Len(prefix), i + Len(prefix) + Len(text) - 1) = text

\* C24: extractVideoId gives eleven characters of [A-Za-z0-9_-] that follow
\* youtube.com/watch?v=, youtu.be/, youtube.com/embed/ or youtube.com/v/ in
\* the url, whatever comes after them, and null exactly when no such eleven
\* characters follow any of the four; what it gives passes isValidVideoId,
\* which holds exactly for texts of eleven characters of [A-Za-z0-9_-].
C24_VideoIdFollowsAKnownPrefix ==
    /\ IdEnded("isValidVideoId") => (idCall.valid <=> WellFormedId(idCall.arg))
    /\ IdEnded("extractVideoId") =>
          IF idCall.id = Undefined
          THEN ~\E i \in 1..Len(idCall.arg) :
                    /\ i + 10 <= Len(idCall.arg)
                    /\ WellFormedId(SubSeq(idCall.arg, i, i + 10))
                    /\ Follows(idCall.arg, SubSeq(idCall.arg, i, i + 10))
          ELSE /\ Follows(idCall.arg, idCall.id[1])
               /\ WellFormedId(idCall.id[1])
               /\ isValidVideoId(idCall.id[1])

C24_Witness ==
    /\ IdEnded("extractVideoId")
    /\ idCall.arg = <<"h", "t", "t", "p", "s", ":", "/", "/", "w", "w", "w", ".", "y", "o", "u", "t", "u", "b", "e", ".", "c", "o", "m", "/", "w", "a", "t", "c", "h", "?", "v", "=", "_", "-", "_", "-", "_", "-", "_", "-", "_", "-", "_", "&", "t", "=", "3", "0", "s">>
    /\ idCall.id = Some(<<"_", "-", "_", "-", "_", "-", "_", "-", "_", "-", "_">>)


(***************************************************************************)
(* The brace scan of parseCharByChar, step by step                         *)
(***************************************************************************)
\* the scan has run in this call: the marker and an opening brace were found
ScanRan ==
    /\ pc \in {"regex", "jsDone"}
    /\ MarkerOf(varName, html) # <<>>
    /\ IndexOf(SplitPart1(html, MarkerOf(varName, html)), <<"{">>, 1) # 0

ScanOfCall ==
    LET afterVar == SplitPart1(html, MarkerOf(varName, html))
    IN  ScanSteps(afterVar, IndexOf(afterVar, <<"{">>, 1), ScanStart)

\* inside a string: no brace changes the depth, a backslash makes the next
\* character pass verbatim, and the string ends at the unescaped quote that opened it
InsideAsStated(step) ==
    /\ step.after.braceCount = step.before.braceCount
    /\ step.after.escapeNext = (~step.before.escapeNext /\ step.char = Bksl)
    /\ step.after.inString =
          ~(~step.before.escapeNext /\ step.char = step.before.stringChar)

\* outside a string: a backslash means nothing, and a brace counts whatever
\* came before it
OutsideAsStated(step) ==
    /\ ~step.after.escapeNext
    /\ step.char = "{" => step.after.braceCount = step.before.braceCount + 1
    /\ step.char = "}" => step.after.braceCount = step.before.braceCount - 1
    /\ step.after.inString = (step.char \in {Quote, Apos})

C25_InsideStrings ==
    ScanRan =>
        \A k \in DOMAIN ScanOfCall :
            ScanOfCall[k].before.inString => InsideAsStated(ScanOfCall[k])

\* C25: in the brace scan a backslash matters only inside a string, where
\* exactly the next character is taken verbatim; outside a string every
\* brace moves the depth whatever precedes it; inside a string no brace
\* moves it and only the unescaped opening quote character ends the string.
C25_BackslashOnlyInsideStrings ==
    ScanRan =>
        \A k \in DOMAIN ScanOfCall :
            IF ScanOfCall[k].before.inString
            THEN InsideAsStated(ScanOfCall[k])
            ELSE OutsideAsStated(ScanOfCall[k])

\* the steps and the loop agree on where the scan ends
ScanStepsEndLikeLoop ==
    ScanRan =>
        LET afterVar == SplitPart1(html, MarkerOf(varName, html))
            open == IndexOf(afterVar, <<"{">>, 1)
        IN  ScanOfCall[Len(ScanOfCall)].after = ScanLoop(afterVar, open, ScanStart)


\* the substring the scan extracts from a region: from its first opening
\* brace to the brace that closes it, or nothing
Extracted(region) ==
    LET open == IndexOf(region, <<"{">>, 1) IN
    IF open = 0 THEN <<>>
    ELSE LET end == ScanLoop(region, open, ScanStart).endIndex IN
         IF end = 0 THEN <<>> ELSE SubSeq(region, open, end)

\* everything after the first occurrence of the marker
RestAfter(text, marker) ==
    SubSeq(text, IndexOf(text, marker, 1) + Len(marker), Len(text))

\* C26: the scan runs from the first opening brace after the first `var NAME`
\* (or bare NAME) to the end of the input; a later occurrence of the marker
\* does not shorten the region, and the scan fails for unbalanced braces
\* only when the whole rest of the input is exhausted.
C26_ScanRunsToTheEndOfInput ==
    (pc \in {"regex", "jsDone"} /\ MarkerOf(varName, html) # <<>>) =>
        LET marker == MarkerOf(varName, html)
            asStated == Extracted(RestAfter(html, marker))
        IN  /\ Extracted(SplitPart1(html, marker)) = asStated
            /\ scanned.ok = (asStated # <<>> /\ JsonParse(asStated).ok)
            /\ scanned.ok => scanned.text = asStated

\* without a second occurrence of the marker the scan reads the rest of the input
C26_ToTheEndWhenMarkerOccursOnce ==
    (pc \in {"regex", "jsDone"} /\ MarkerOf(varName, html) # <<>>) =>
        LET marker == MarkerOf(varName, html) IN
        IndexOf(RestAfter(html, marker), marker, 1) = 0 =>
            /\ SplitPart1(html, marker) = RestAfter(html, marker)
            /\ scanned.ok = (Extracted(RestAfter(html, marker)) # <<>>
                              /\ JsonParse(Extracted(RestAfter(html, marker))).ok)

\* a balanced literal of valid JSON, the marker inside its innermost string:
\* neither strategy extracts it
C26_BalancedLiteralLost ==
    /\ pc = "jsDone"
    /\ html = Assign(NameX, Nest(Quote, Wrap(Quote, <<Quote>> \o VarMarker(NameX) \o <<Quote>>), 2))
    /\ ~outcome.ok


(***************************************************************************)
(* The two strategies of JsVarParser.parse                                 *)
(***************************************************************************)
\* pattern n matches the text of the call and its match, quotes rewritten,
\* is valid JSON
PatternParses(n) ==
    /\ Match(n, varName, html) # <<>>
    /\ JsonParse(ReplaceQuotes(Match(n, varName, html), 1)).ok

\* C27: the scan runs first and its value is returned whenever it succeeds;
\* the fallback runs only after the scan has failed; in the fallback the
\* patterns `var NAME = {...};`, `NAME = {...};`, `"NAME": {...}` are tried
\* in that order, the first whose match parses decides the result, and a
\* match that does not parse does not stop the later patterns.
C27_ScanThenPatternsInOrder ==
    /\ pc = "regex" =>
          /\ scanned = youTubeDataUnparsable(videoId)
          /\ outcome = NoOutcome
    /\ pc = "jsDone" =>
          /\ scanned.ok => outcome = scanned
          /\ (~scanned.ok /\ RegExpCompiles(varName)) =>
                IF \E n \in 1..3 : PatternParses(n)
                THEN LET first == CHOOSE n \in 1..3 :
                                      /\ PatternParses(n)
                                      /\ \A k \in 1..(n - 1) : ~PatternParses(k)
                         m == Match(first, varName, html)
                     IN  outcome = Returned(JsonParse(ReplaceQuotes(m, 1)).val, m)
                ELSE outcome = youTubeDataUnparsable(videoId)

\* the scan failed, the matches of the first two patterns do not parse, and
\* the third pattern gave the result
C27_Witness ==
    /\ pc = "jsDone"
    /\ ~scanned.ok
    /\ Match(1, varName, html) # <<>> /\ ~PatternParses(1)
    /\ Match(2, varName, html) # <<>> /\ ~PatternParses(2)
    /\ PatternParses(3)
    /\ outcome.ok
    /\ outcome.text = Match(3, varName, html)


(***************************************************************************)
(* Elements other than anchors in plain mode                               *)
(***************************************************************************)
\* an element that is not an anchor stands somewhere in the nodes
RECURSIVE HasOtherElement(_)
HasOtherElement(nodes) ==
    /\ nodes # <<>>
    /\ \/ nodes[1].k = "el" /\ (nodes[1].v # "a" \/ HasOtherElement(nodes[1].kids))
       \/ HasOtherElement(Tail(nodes))

RECURSIVE HasAnchor(_)
HasAnchor(nodes) ==
    /\ nodes # <<>>
    /\ \/ nodes[1].k = "el" /\ (nodes[1].v = "a" \/ HasAnchor(nodes[1].kids))
       \/ HasAnchor(Tail(nodes))

\* no text of the nodes holds a character that could be read as markup
PlainCharacters(nodes) ==
    \A n \in DOMAIN TextContent(nodes) : TextContent(nodes)[n] \notin {"<", ">", "&"}

C30_DepthStaysPositiveUntilTheEnd ==
    ScanRan =>
        LET afterVar == SplitPart1(html, MarkerOf(varName, html))
            steps == ScanOfCall
            last == Len(steps)
        IN  /\ last >= 1 /\ last <= Len(afterVar)
            /\ steps[1].at = IndexOf(afterVar, <<"{">>, 1)
            /\ steps[1].char = "{" /\ steps[1].after.braceCount = 1
            /\ \A k \in 1..last :
                  /\ steps[k].after.braceCount >= 0
                  /\ k > 1 => steps[k].at = steps[k - 1].at + 1
                  /\ k < last => steps[k].after.braceCount >= 1
                  /\ (steps[k].after.braceCount = 0) = (steps[k].after.endIndex # 0)
                  /\ steps[k].after.endIndex # 0 =>
                        k = last /\ steps[k].after.endIndex = steps[k].at
            /\ steps[last].after.endIndex = 0 => steps[last].at = Len(afterVar)
            /\ Extracted(afterVar) # <<>> =>
                  /\ Extracted(afterVar)[1] = "{"
                  /\ Extracted(afterVar)[Len(Extracted(afterVar))] = "}"
                  /\ Extracted(afterVar) =
                        SubSeq(afterVar, steps[1].at, steps[last].at)
            /\ scanned.ok => scanned.text = Extracted(afterVar)

\* the scan went three braces deep and stopped at the closing brace with
\* text still ahead of it
C30_Witness ==
    /\ ScanRan
    /\ scanned.ok
    /\ \E k \in DOMAIN ScanOfCall : ScanOfCall[k].after.braceCount = 3
    /\ ScanOfCall[Len(ScanOfCall)].after.endIndex
          < Len(SplitPart1(html, MarkerOf(varName, html)))

====
